---- MODULE Spec2Model ----
(***************************************************************************)
(* EchoFlux: realtime speech-to-text engine.                               *)
(*                                                                         *)
(* Part 1 models FasterWhisperBackend (engine/asr/faster_whisper_backend)  *)
(* as pure operators over an engine record, and a specification SpecAsr    *)
(* that drives one engine object through its public methods.               *)
(*                                                                         *)
(* Part 2 models EchoFluxEngine (engine/main.py): the start and stop       *)
(* handlers on the event loop, the capture, decoder and translator         *)
(* threads of every session, the emitter task, the three queues and the    *)
(* VAD gate (engine/audio/vad.py).  Its specification is Spec.             *)
(*                                                                         *)
(* Part 3 models FallbackTranslationBackend and OnlineBackend              *)
(* (engine/translation): loading, translate with probe, failover, backoff, *)
(* rate limit and cache.  Its specification is SpecTr; SpecOnline drives   *)
(* the online backend alone.                                               *)
(*                                                                         *)
(* Part 4 models the WebSocket server and the emitter (SpecWs), the VAD    *)
(* gate alone (SpecVad), and the decoder's segments with the cleaning      *)
(* layers of the ASR engine (SpecDecode).  SpecClean applies the cleaners  *)
(* of the ASR engine and of the translation backends to texts alone.       *)
(*                                                                         *)
(* Audio is measured in units: one unit is one frame of the source.  A     *)
(* text is identified by the audio it was decoded from.  Time is measured  *)
(* in clock ticks: 0.4 s in Parts 1 and 2, 2 s in Part 3.                  *)
(***************************************************************************)
EXTENDS Naturals, Integers, Sequences, FiniteSets, TLC

\* ---------------------------------------------------------------- bounds
\* int(max_buffer_duration * sample_rate), in audio units (64000 samples in
\* the code for model size "small").
MaxSamples == 3
\* int(0.3 * sample_rate), in audio units: the minimum window of an inference.
MinSamples == 1
\* inference_interval, in clock ticks.
InferenceInterval == 1
\* Largest chunk handed to transcribe_stream in SpecAsr, in audio units.
MaxChunk == 4
\* Audio units produced in one run of SpecAsr.
MaxStream == 6
\* Clock ticks in one run.
MaxTime == 2
\* Queue(maxsize=500) of audio frames, scaled down.
AudioQueueCap == 2
\* Queue(maxsize=100) of translation jobs, scaled down.
TransQueueCap == 1
\* Frames one decoder iteration batches (10 in the code), scaled down.
BatchMax == 2
\* WINDOW_SIZE_SAMPLES of the VAD model, in audio units.
VadWindow == 1
\* Frames the audio sources deliver in one run of Spec.
MaxFrames == 3
\* Start and stop commands a client sends in one run of Spec.
MaxCommands == 2

\* SILENCE_FINALIZE_DELAY = 0.8 s, in clock ticks (a tick is 0.8 s).
SILENCE_FINALIZE_DELAY == 1

\* Messages one pass of _broadcast_loop sends (count < 10).
EmitBatch == 10

\* Segments the decoder returns for one window in SpecDecode.
MaxSegments == 2
\* Words of a decoder segment in SpecDecode.
MaxSegWords == 5
\* Audio units produced in one run of SpecDecode.
MaxDecodeStream == 4
\* MAX_WORDS_PER_SECOND = 5.0
MAX_WORDS_PER_SECOND == 5
\* _max_buffer_duration = 4.0 s: the seconds of MaxSamples audio units.
max_buffer_duration == 4

\* Words of the longest text given to the cleaners in SpecClean.
MaxCleanWords == 9
\* Words of the longest text with upper-case words in SpecClean.
MaxCaseWords == 5

\* Audio units of the longest chunk given to the gate in SpecVad.
MaxVadChunk == 4
\* The pad counters of the gate in the specification of the gate: windows in
\* a row before it opens and before it closes.
speech_pad_frames == 3
silence_pad_frames == 8

\* WebSocket connections made in one run of SpecWs.
MaxSockets == 2
\* Messages the workers put on result_queue in one session of SpecWs.
MaxResults == 2

\* ---- the translation router.  Its clock ticks every 2 s; the intervals
\* of 60 s and the capacities are scaled down.
\* Last instant of a run of SpecTr.
MaxClock == 6
\* Letters of the texts sent for translation in one run of SpecTr.
MaxTexts == 1
\* Letters of the texts sent to the online backend in one run of SpecOnline.
MaxLetters == 2
\* INITIAL_BACKOFF_SECONDS = 2.0, in ticks.
INITIAL_BACKOFF_SECONDS == 1
\* BACKOFF_MULTIPLIER = 2.0
BACKOFF_MULTIPLIER == 2
\* MAX_BACKOFF_SECONDS = 60.0, scaled: not a power of two times the initial
\* backoff, as in the code.
MAX_BACKOFF_SECONDS == 3
\* MAX_CONSECUTIVE_FAILURES = 3
MAX_CONSECUTIVE_FAILURES == 3
\* MAX_REQUESTS_PER_MINUTE = 30, scaled.
MAX_REQUESTS_PER_MINUTE == 2
\* The window of the rate limit (the literal 60.0 of _wait_for_rate_limit), scaled.
RateWindow == 3
\* The margin of the rate limit's sleep (the literal 0.1), as the smallest time.
RateMargin == 1
\* ONLINE_RETRY_INTERVAL = 60.0, scaled.
ONLINE_RETRY_INTERVAL == 3
\* MAX_CACHE_SIZE = 500, scaled.
MAX_CACHE_SIZE == 2

\* The pipelines started are numbered; a thread is known by its pipeline.
Sessions == 1..MaxCommands

VARIABLES
    \* ---- the ASR engine
    asr,          \* the FasterWhisperBackend object: _model, _audio_buffer, ...
    now,          \* time.time(), in ticks
    nextSample,   \* id of the next audio unit the source produces
    lastCall,     \* the last engine call: op, how it ended, what it returned
    committed,    \* audio units covered by a final segment returned so far
    redecoded,    \* an inference decoded an audio unit that was already committed
    \* ---- EchoFluxEngine
    commands,             \* start and stop commands handled so far
    running,              \* self._running
    cur,                  \* number of starts so far: the id of the newest objects
    audio_input,          \* self._audio_input: [obj, active]; obj 0 is None
    vad,                  \* self._vad: [obj, enabled, is_speech, buffer]
    asr_backend,          \* self._asr_backend: object id, 0 is None (its state is asr)
    translation_backend,  \* self._translation_backend: [obj, loaded]
    audio_queue,          \* self._audio_queue
    translation_queue,    \* self._translation_queue
    result_queue,         \* self._result_queue
    capture_thread,       \* self._capture_thread: session of the thread, 0 is None
    process_thread,       \* self._process_thread
    translation_thread,   \* self._translation_thread
    cap,                  \* the capture threads, by session
    dec,                  \* the decoder threads, by session
    tr,                   \* the translator threads, by session
    emitter,              \* self._result_task: "none", "run", "done"
    seen,                 \* what the client has received since _start_threads (summary)
    enqueued,             \* number of messages put on result_queue since _start_threads
    finals,               \* texts of the final messages put on result_queue since then
    stopFinal,            \* id of the final message the last stop enqueued, 0: none
    overdue,              \* a silence of SILENCE_FINALIZE_DELAY went by without finalize_current()
    \* ---- the translation router
    router,       \* the FallbackTranslationBackend object
    online,       \* its OnlineBackend object
    lastRequest,  \* the last call of the router's translate: what it did and returned
    cacheUses,    \* the cache keys hit or inserted since the cache was empty, by last use
    \* ---- the WebSocket server
    ws,           \* the server's _clients, the open connections, the engine's _client
    wsLast,       \* the last step of the server or the emitter: what it did and sent
    \* ---- the VAD gate alone
    vadLast,      \* the last call of the gate, and the runs of windows it has been given
    \* ---- the decoder's segments and the cleaning layers
    decoding,     \* what model.transcribe returns in this run, and the last inference
    \* ---- the cleaners of texts alone
    cleaning      \* the text of this run and what the cleaners have made of it

asrVars == <<asr, now, nextSample, lastCall, committed, redecoded>>

asrGhost == <<lastCall, committed, redecoded>>

pipeVars == <<commands, running, cur, audio_input, vad, asr_backend, translation_backend,
              audio_queue, translation_queue, result_queue,
              capture_thread, process_thread, translation_thread,
              cap, dec, tr, emitter, seen, enqueued, finals, stopFinal, overdue>>

transVars == <<router, online, lastRequest, cacheUses>>

wsVars == <<ws, wsLast>>

aloneVars == <<vadLast, decoding, cleaning>>

vars == <<asrVars, pipeVars, transVars, wsVars, aloneVars>>

\* "" of the code: the text decoded from no audio.
NoText == [audio |-> <<>>, trimmed |-> FALSE]

\* Optional[TranscriptResult]: kind "none" is None, "raise" an exception that
\* propagates out of the call.
None == [kind |-> "none", text |-> NoText, is_final |-> FALSE]
Raised == [kind |-> "raise", text |-> NoText, is_final |-> FALSE]
TranscriptResult(text, is_final) == [kind |-> "segment", text |-> text, is_final |-> is_final]

\* What self._model.transcribe and the two cleaning layers make of a window:
\*   raise   model.transcribe raises
\*   empty   no segments, or only blank text, or nothing left after cleaning
\*   clean   a text whose cleaned form keeps at least 70 % of the raw length
\*   halluc  a text whose cleaned form is shorter than 70 % of the raw text
DecodeOutcomes == {"raise", "empty", "clean", "halluc"}

\* FasterWhisperBackend.__init__
NewBackend == [model |-> FALSE, audio_buffer |-> <<>>,
               last_inference_time |-> 0, last_stable_text |-> NoText]

\* FasterWhisperBackend.reset_stream
reset_stream(a) == [a EXCEPT !.audio_buffer = <<>>,
                             !.last_inference_time = 0,
                             !.last_stable_text = NoText]

\* FasterWhisperBackend.load_model: ok is whether WhisperModel(...) succeeded
\* (after the CPU retry); a failed load raises and leaves _model unset.
load_model(a, ok) == IF ok THEN [a EXCEPT !.model = TRUE] ELSE a

\* unload_model without reset_stream().
unload_model_mut(a) == [a EXCEPT !.model = FALSE]

\* FasterWhisperBackend.unload_model
unload_model(a) == reset_stream([a EXCEPT !.model = FALSE])

\* _run_inference without the window cut of its hallucination branch.
_run_inference_mut(a, snap, is_final, d) ==
    IF d = "raise" THEN [a |-> a, result |-> Raised]
    ELSE IF d = "empty" THEN [a |-> a, result |-> None]
    ELSE IF is_final
         THEN [a |-> [a EXCEPT !.last_stable_text = NoText, !.audio_buffer = <<>>],
               result |-> TranscriptResult([audio |-> snap, trimmed |-> d = "halluc"], TRUE)]
         ELSE IF d = "halluc"
              THEN [a |-> [a EXCEPT !.last_stable_text = NoText],
                    result |-> TranscriptResult([audio |-> snap, trimmed |-> TRUE], TRUE)]
              ELSE [a |-> [a EXCEPT !.last_stable_text = [audio |-> snap, trimmed |-> FALSE]],
                    result |-> TranscriptResult([audio |-> snap, trimmed |-> FALSE], FALSE)]

\* FasterWhisperBackend._run_inference on the window snap, read when
\* model.transcribe was called; d is the decode outcome.  Returns the engine
\* record and the result.
_run_inference(a, snap, is_final, d) ==
    IF d = "raise" THEN [a |-> a, result |-> Raised]
    ELSE IF d = "empty" THEN [a |-> a, result |-> None]
    ELSE IF is_final \/ d = "halluc"
         THEN [a |-> [a EXCEPT !.last_stable_text = NoText, !.audio_buffer = <<>>],
               result |-> TranscriptResult([audio |-> snap, trimmed |-> d = "halluc"], TRUE)]
         ELSE [a |-> [a EXCEPT !.last_stable_text = [audio |-> snap, trimmed |-> FALSE]],
               result |-> TranscriptResult([audio |-> snap, trimmed |-> FALSE], FALSE)]

\* FasterWhisperBackend._run_finalize from the return of model.transcribe on:
\* the window is cleared whatever the inference returned, unless it raised.
_finalize_return(a, snap, d) ==
    LET r == _run_inference(a, snap, TRUE, d)
    IN  IF r.result.kind = "raise" THEN r
        ELSE [a |-> [r.a EXCEPT !.audio_buffer = <<>>, !.last_stable_text = NoText],
              result |-> r.result]

\* FasterWhisperBackend._run_finalize
_run_finalize(a, d) ==
    IF ~a.model \/ Len(a.audio_buffer) = 0 THEN [a |-> a, result |-> None]
    ELSE _finalize_return(a, a.audio_buffer, d)

\* FasterWhisperBackend.finalize_current
finalize_current(a, d) == _run_finalize(a, d)

\* FasterWhisperBackend.transcribe_stream from `now = time.time()` up to the
\* call of _run_inference: the throttle and the minimum window.  call is
\* "partial" when an inference is to run.
_throttle(a, t) ==
    IF t - a.last_inference_time < InferenceInterval THEN [a |-> a, call |-> "none"]
    ELSE LET a3 == [a EXCEPT !.last_inference_time = t]
         IN  IF Len(a3.audio_buffer) < MinSamples THEN [a |-> a3, call |-> "none"]
             ELSE [a |-> a3, call |-> "partial"]

\* transcribe_stream without the cap check.
transcribe_stream_mut(a, chunk, t, d) ==
    IF ~a.model THEN [a |-> a, result |-> None]
    ELSE LET th == _throttle([a EXCEPT !.audio_buffer = a.audio_buffer \o chunk], t)
         IN  IF th.call = "none" THEN [a |-> th.a, result |-> None]
             ELSE _run_inference(th.a, th.a.audio_buffer, FALSE, d)

\* FasterWhisperBackend.transcribe_stream.  t is time.time() read after the
\* cap check.  Called by one thread, a call runs at most one inference:
\* after a forced finalize that returned nothing the window is empty, hence
\* below MinSamples.
transcribe_stream(a, chunk, t, d) ==
    IF ~a.model THEN [a |-> a, result |-> None]
    ELSE LET a1 == [a EXCEPT !.audio_buffer = a.audio_buffer \o chunk]
             over == Len(a1.audio_buffer) > MaxSamples
             f == IF over THEN _run_finalize(a1, d) ELSE [a |-> a1, result |-> None]
         IN  IF f.result.kind # "none" THEN f
             ELSE LET th == _throttle(f.a, t)
                  IN  IF th.call = "none" THEN [a |-> th.a, result |-> None]
                      ELSE _run_inference(th.a, th.a.audio_buffer, FALSE, d)

\* transcribe_stream up to its first call of model.transcribe, for callers
\* that other threads may overtake while the inference runs.  call names the
\* inference about to run: "forced" (the cap), "partial", or "none".
transcribe_stream_call(a, chunk, t) ==
    IF ~a.model THEN [a |-> a, call |-> "none"]
    ELSE LET a1 == [a EXCEPT !.audio_buffer = a.audio_buffer \o chunk]
         IN  IF Len(a1.audio_buffer) > MaxSamples THEN [a |-> a1, call |-> "forced"]
             ELSE _throttle(a1, t)

\* finalize_current up to its call of model.transcribe.
finalize_current_call(a) ==
    IF ~a.model \/ Len(a.audio_buffer) = 0 THEN [a |-> a, call |-> "none"]
    ELSE [a |-> a, call |-> "final"]

\* The engine call from the return of model.transcribe (on the window snap)
\* on.  again: a forced finalize returned nothing and the throttle lets a
\* partial inference follow in the same call.
inference_return(a, snap, call, d, t) ==
    IF call = "partial"
    THEN LET r == _run_inference(a, snap, FALSE, d)
         IN  [a |-> r.a, result |-> r.result, again |-> FALSE]
    ELSE LET r == _finalize_return(a, snap, d)
         IN  IF call = "forced" /\ r.result.kind = "none"
             THEN LET th == _throttle(r.a, t)
                  IN  [a |-> th.a, result |-> None, again |-> th.call = "partial"]
             ELSE [a |-> r.a, result |-> r.result, again |-> FALSE]

\* The audio units of a window.
Units(s) == {s[i] : i \in 1..Len(s)}

\* The next n audio units of the source.
Chunk(n) == [i \in 1..n |-> nextSample + i - 1]

\* Bookkeeping of an engine call that ended with r on the given window.
Record(op, window, r) ==
    /\ lastCall' = [op |-> op, ended |-> IF r.result.kind = "raise" THEN "raised" ELSE "returned",
                    result |-> r.result, window |-> window]
    /\ committed' = IF r.result.kind = "segment" /\ r.result.is_final
                    THEN committed \cup Units(r.result.text.audio) ELSE committed
    /\ redecoded' = (redecoded \/ (r.result.kind = "segment"
                                   /\ Units(r.result.text.audio) \cap committed # {}))

\* ------------------------------------------------------- EchoFluxEngine
\* A queue after n items were taken from it.
Drop(q, n) == SubSeq(q, n + 1, Len(q))

\* A frame of the audio source: speech tells whether the VAD model gives a
\* window holding it a probability above the threshold.
NoFrame == [id |-> 0, speech |-> FALSE]

\* VAD.__init__: enabled is False when vad.enabled is off or _init_model failed.
\* spoke records whether process() of this gate has returned True so far.
NewVad(obj, enabled) ==
    [obj |-> obj, enabled |-> enabled, is_speech |-> FALSE, buffer |-> <<>>, spoke |-> FALSE]

\* The while loop of VAD.process over the accumulated buffer of speech flags.
RECURSIVE VadWindows(_, _)
VadWindows(buffer, is_speech) ==
    IF Len(buffer) < VadWindow THEN [buffer |-> buffer, is_speech |-> is_speech]
    ELSE VadWindows(SubSeq(buffer, VadWindow + 1, Len(buffer)),
                    is_speech \/ (\E i \in 1..VadWindow : buffer[i]))

\* VAD.process: returns the gate and the value returned.
process(v, chunk) ==
    IF ~v.enabled THEN [v |-> [v EXCEPT !.spoke = TRUE], ret |-> TRUE]
    ELSE LET w == VadWindows(v.buffer \o chunk, v.is_speech)
         IN  [v |-> [v EXCEPT !.buffer = w.buffer, !.is_speech = w.is_speech,
                               !.spoke = v.spoke \/ w.is_speech],
              ret |-> w.is_speech]

\* VAD.reset
reset(v) == [v EXCEPT !.buffer = <<>>, !.is_speech = FALSE]

\* The threads before they are started.
NoCapture == [pc |-> "none", chunk |-> NoFrame]
NoDecoder == [pc |-> "none", exit |-> "", was_speech |-> FALSE, silence_start_time |-> 0,
              has_pending_audio |-> FALSE, snap |-> <<>>, call |-> "none",
              obj |-> 0, fed |-> FALSE, silentSince |-> 0]
NoTranslator == [pc |-> "none", exit |-> "", text |-> NoText]

\* What the client has received: the ids of the messages, the audio units
\* covered by the final messages, whether a partial message came after a
\* final one covering audio of it, and whether a message came after one put
\* on result_queue later.
NoneSeen == [ids |-> {}, finals |-> {}, late |-> FALSE, disorder |-> FALSE]

\* ---- the translation router: the objects as constructed

\* A text is a sequence of characters: 0 is a blank character, the others
\* are letters.  Every text is short enough to be one sentence of a request.
Blank == 0

\* str.strip(): the blank characters at both ends are removed.
RECURSIVE lstrip(_)
lstrip(s) == IF s # <<>> /\ Head(s) = Blank THEN lstrip(Tail(s)) ELSE s

Reverse(s) == [i \in 1..Len(s) |-> s[Len(s) + 1 - i]]

strip(s) == Reverse(lstrip(Reverse(lstrip(s))))

\* The texts of the translation jobs: _translation_loop skips an empty text,
\* not a text of blank characters.
Texts == {<<c>> : c \in 0..MaxTexts}

\* translation.source_lang and translation.target_lang of the configuration
\* (the defaults), read by _translation_loop.
src_lang == "auto"

tgt_lang == "vi"

\* What one HTTP request of _do_request meets: a translation, a body with no
\* translated part, HTTP 429 or 403, HTTP 5xx, another HTTP error code, a
\* transport error (URLError, TimeoutError), or a body that does not parse.
HttpOutcomes == {"ok", "empty", "http429", "http500", "http404", "network", "garbled"}

\* What MarianBackend.translate does: a translation, an empty one, or an exception.
MarianOutcomes == {"ok", "empty", "raise"}

\* OnlineBackend.__init__; cache is the OrderedDict, least recently used first.
NewOnline ==
    [loaded |-> FALSE, request_timestamps |-> <<>>, backoff_until |-> 0,
     current_backoff |-> INITIAL_BACKOFF_SECONDS, cache |-> <<>>,
     consecutive_failures |-> 0]

\* FallbackTranslationBackend.__init__; online and marian tell whether
\* self._online and self._marian hold an object.
NewFallback ==
    [online |-> FALSE, marian |-> FALSE, online_enabled |-> TRUE, marian_enabled |-> TRUE,
     online_loaded |-> FALSE, marian_loaded |-> FALSE, active |-> "none",
     fallen_back |-> FALSE, last_online_retry |-> 0]

\* No call of the router yet.  streak counts the HTTP requests that failed
\* since the last one that succeeded, up to MAX_CONSECUTIVE_FAILURES.
NoCall ==
    [op |-> "none", probe |-> "none", probeResponse |-> "none", tried |-> FALSE,
     response |-> "none", served |-> "none", update |-> "none", raised |-> FALSE,
     preferred |-> "none", streak |-> 0, ret |-> "none", text |-> <<>>,
     source_lang |-> "none"]

\* No call of the gate yet.  speechRun and silenceRun count the windows above
\* and not above the threshold at the end of what the gate has been given,
\* up to speech_pad_frames and silence_pad_frames.
NoVadCall == [op |-> "none", chunk |-> <<>>, ret |-> FALSE, speechRun |-> 0, silenceRun |-> 0]

\* No inference yet, and a decoder that returns no segments.  removed is
\* what _remove_repetitions makes of the text of the segments; call is the
\* inference the last engine call ran, window the audio it decoded, raw and
\* text the words of raw_text and of the text returned.
NoInference ==
    [segments |-> <<>>, removed |-> <<>>, op |-> "none", call |-> "none", window |-> <<>>,
     raw |-> <<>>, kind |-> "none", is_final |-> FALSE, text |-> <<>>]

\* No cleaner applied yet, to the empty text.  op is the function applied
\* last, units the duration given to _enforce_length_limit; cleaned, again,
\* limited and post are what _remove_repetitions, _remove_repetitions on its
\* own output, _enforce_length_limit and post_process returned.
NoCleaning ==
    [text |-> <<>>, op |-> "none", units |-> 0, cleaned |-> <<>>, again |-> <<>>,
     limited |-> <<>>, post |-> <<>>]

\* WebSocketServer.__init__ and the engine's _client (0: None).  open: the
\* connections that are up; used: the sockets that have connected; failed:
\* the sockets a send of the emitter has failed on.
NewServer == [clients |-> {}, open |-> {}, used |-> {}, client |-> 0, failed |-> {}]

\* No step of the server yet.
NoStep ==
    [op |-> "none", socket |-> 0, type |-> "none", handler |-> "none", outcome |-> "none",
     replies |-> <<>>, errorTo |-> 0, ok |-> TRUE]

WsIdle ==
    /\ ws = NewServer
    /\ wsLast = NoStep
    /\ vadLast = NoVadCall
    /\ decoding = NoInference
    /\ cleaning = NoCleaning

TransIdle ==
    /\ router = NewFallback
    /\ online = NewOnline
    /\ lastRequest = NoCall
    /\ cacheUses = <<>>

\* EchoFluxEngine.__init__
PipeIdle ==
    /\ commands = 0
    /\ running = FALSE
    /\ cur = 0
    /\ audio_input = [obj |-> 0, active |-> FALSE]
    /\ vad = NewVad(0, FALSE)
    /\ asr_backend = 0
    /\ translation_backend = [obj |-> 0, loaded |-> FALSE]
    /\ audio_queue = <<>>
    /\ translation_queue = <<>>
    /\ result_queue = <<>>
    /\ capture_thread = 0
    /\ process_thread = 0
    /\ translation_thread = 0
    /\ cap = [s \in Sessions |-> NoCapture]
    /\ dec = [s \in Sessions |-> NoDecoder]
    /\ tr = [s \in Sessions |-> NoTranslator]
    /\ emitter = "none"
    /\ seen = NoneSeen
    /\ enqueued = 0
    /\ finals = {}
    /\ stopFinal = 0
    /\ overdue = FALSE

Init ==
    /\ asr = NewBackend
    /\ now = InferenceInterval
    /\ nextSample = 1
    /\ lastCall = [op |-> "none", ended |-> "returned", result |-> None, window |-> <<>>]
    /\ committed = {}
    /\ redecoded = FALSE
    /\ PipeIdle
    /\ TransIdle
    /\ WsIdle

\* The message _enqueue_asr_result builds for an ASR result; id is its place
\* among the messages put on result_queue since the last _start_threads.
AsrMessage(r) ==
    [id |-> enqueued + 1, type |-> IF r.is_final THEN "final" ELSE "partial",
     text |-> r.text]

\* _enqueue_asr_result without the Full handler: the job is put regardless.
_enqueue_asr_result_mut(r) ==
    IF r.kind # "segment"
    THEN [result_queue |-> result_queue, translation_queue |-> translation_queue,
          enqueued |-> enqueued, finals |-> finals]
    ELSE [result_queue |-> Append(result_queue, AsrMessage(r)),
          enqueued |-> enqueued + 1,
          finals |-> IF r.is_final THEN finals \cup {r.text} ELSE finals,
          translation_queue |->
              IF /\ translation_backend.obj # 0 /\ translation_backend.loaded
                 /\ r.is_final /\ r.text # NoText
              THEN Append(translation_queue, [text |-> r.text])
              ELSE translation_queue]

\* EchoFluxEngine._enqueue_asr_result (a result that is None is not handed
\* to it): the queues and the bookkeeping of the session after it.  put(timeout=0.5)
\* on a full translation_queue ends in Full and the job is dropped.
_enqueue_asr_result(r) ==
    IF r.kind # "segment"
    THEN [result_queue |-> result_queue, translation_queue |-> translation_queue,
          enqueued |-> enqueued, finals |-> finals]
    ELSE [result_queue |-> Append(result_queue, AsrMessage(r)),
          enqueued |-> enqueued + 1,
          finals |-> IF r.is_final THEN finals \cup {r.text} ELSE finals,
          translation_queue |->
              IF /\ translation_backend.obj # 0 /\ translation_backend.loaded
                 /\ r.is_final /\ r.text # NoText
                 /\ Len(translation_queue) < TransQueueCap
              THEN Append(translation_queue, [text |-> r.text])
              ELSE translation_queue]

\* ---- the event loop: _on_client_start, _on_client_stop, _stop_pipeline

\* A thread that has left its loop; none is the thread's record before its start.
Stopped(none) == [none EXCEPT !.pc = "done", !.exit = "stopped"]

\* self._capture_thread.join(timeout=1.0), after running = False: the thread
\* ends its pass (a pending put included) and leaves the loop.  Only a put
\* on a full queue outlasts the join.
JoinCapture(c) ==
    IF c.pc \in {"start", "loop"} THEN [pc |-> "done", chunk |-> NoFrame]
    ELSE IF c.pc = "put" /\ Len(audio_queue) < AudioQueueCap
    THEN [pc |-> "done", chunk |-> NoFrame]
    ELSE c

\* thread.join(timeout=2.0), after running = False, of a decoder or
\* translator thread: a thread at the head of its loop leaves it; a thread
\* inside model.transcribe or translate() (blocked) can outlast the join.
JoinWorker(th, none) ==
    IF th.pc = "loop" THEN Stopped(none) ELSE th

\* _stop_pipeline of a running pipeline: the state it leaves.  d is the
\* outcome of the inference of the last finalize_current().  The emitter task
\* is cancelled before that call; when the inference raises, the exception
\* leaves _stop_pipeline with the objects still in place.
_stop_pipeline(d) ==
    LET c == IF capture_thread = 0 THEN cap
             ELSE [cap EXCEPT ![capture_thread] = JoinCapture(cap[capture_thread])]
        aq == IF capture_thread # 0 /\ cap[capture_thread].pc = "put"
                 /\ Len(audio_queue) < AudioQueueCap
              THEN Append(audio_queue, cap[capture_thread].chunk)
              ELSE audio_queue
        p == IF process_thread = 0 THEN dec
             ELSE [dec EXCEPT ![process_thread] = JoinWorker(dec[process_thread], NoDecoder)]
        tl == IF translation_thread = 0 THEN tr
              ELSE [tr EXCEPT ![translation_thread] = JoinWorker(tr[translation_thread], NoTranslator)]
        r == IF asr_backend = 0 THEN [a |-> asr, result |-> None]
             ELSE finalize_current(asr, d)
        q == _enqueue_asr_result(r.result)
        joined == [raised |-> TRUE, cap |-> c, dec |-> p, tr |-> tl, audio_queue |-> aq,
                   emitter |-> "done", result_queue |-> result_queue,
                   translation_queue |-> translation_queue, enqueued |-> enqueued,
                   finals |-> finals, stopFinal |-> 0, asr |-> asr, asr_backend |-> asr_backend,
                   translation_backend |-> translation_backend,
                   audio_input |-> [audio_input EXCEPT !.active = FALSE], vad |-> vad]
    IN  IF r.result.kind = "raise" THEN joined
        ELSE [joined EXCEPT !.raised = FALSE,
                            !.result_queue = q.result_queue,
                            !.translation_queue = q.translation_queue,
                            !.enqueued = q.enqueued,
                            !.finals = q.finals,
                            !.stopFinal = IF r.result.kind = "segment"
                                          THEN enqueued + 1 ELSE 0,
                            !.asr = NewBackend,
                            !.asr_backend = 0,
                            !.translation_backend = [obj |-> 0, loaded |-> FALSE],
                            !.audio_input = [obj |-> 0, active |-> FALSE],
                            !.vad = NewVad(0, FALSE)]

\* The threads that still run when _start_threads replaces the handles: a
\* thread that has ended is gone with its handle.
Alive(threads, none) ==
    [s \in Sessions |-> IF threads[s].pc = "done" THEN none ELSE threads[s]]

\* The handler of a stop command while the pipeline runs (with no pipeline
\* running _stop_pipeline returns at once).
OnClientStop ==
    \E d \in DecodeOutcomes :
        /\ commands < MaxCommands
        /\ running
        /\ commands' = commands + 1
        /\ \E st \in {_stop_pipeline(d)} :
               /\ running' = FALSE
               /\ cap' = st.cap
               /\ dec' = st.dec
               /\ tr' = st.tr
               /\ audio_queue' = st.audio_queue
               /\ emitter' = st.emitter
               /\ result_queue' = st.result_queue
               /\ translation_queue' = st.translation_queue
               /\ enqueued' = st.enqueued
               /\ finals' = st.finals
               /\ stopFinal' = st.stopFinal
               /\ asr' = st.asr
               /\ asr_backend' = st.asr_backend
               /\ translation_backend' = st.translation_backend
               /\ audio_input' = st.audio_input
               /\ vad' = st.vad
        /\ UNCHANGED <<cur, capture_thread, process_thread, translation_thread, seen, overdue>>
        /\ UNCHANGED <<now, nextSample, asrGhost>>
        /\ UNCHANGED transVars
        /\ UNCHANGED wsVars
        /\ UNCHANGED aloneVars

\* ---- load_model of the translation backends

\* OnlineBackend.load_model
Online_load_model(o) ==
    [o EXCEPT !.loaded = TRUE, !.consecutive_failures = 0, !.backoff_until = 0,
              !.current_backoff = INITIAL_BACKOFF_SECONDS]

\* load_model without the branch that starts on marian when the online
\* backend did not load.
Fallback_load_model_mut(f, o, preferred, okOnline, okMarian) ==
    LET f1 == [f EXCEPT !.online_enabled = (preferred # "marian"),
                        !.marian_enabled = TRUE]
        f2 == IF f1.online_enabled
              THEN [f1 EXCEPT !.online = TRUE, !.online_loaded = okOnline]
              ELSE f1
        o2 == IF f1.online_enabled
              THEN (IF okOnline THEN Online_load_model(NewOnline) ELSE NewOnline)
              ELSE o
        f3 == [f2 EXCEPT !.marian = TRUE, !.marian_loaded = okMarian]
    IN  IF preferred = "marian" /\ f3.marian_loaded
        THEN [f |-> [f3 EXCEPT !.active = "marian"], o |-> o2, raised |-> FALSE]
        ELSE IF f3.online_loaded
        THEN [f |-> [f3 EXCEPT !.active = "online"], o |-> o2, raised |-> FALSE]
        ELSE [f |-> f3, o |-> o2, raised |-> TRUE]

\* load_model of a new router.  preferred is translation.backend ("online",
\* "marian", or another word); okOnline, okMarian: the backend's own
\* load_model does not raise.  raised: ModelLoadError.
Fallback_load_model(f, o, preferred, okOnline, okMarian) ==
    LET f1 == [f EXCEPT !.online_enabled = (preferred # "marian"),
                        !.marian_enabled = TRUE]
        f2 == IF f1.online_enabled
              THEN [f1 EXCEPT !.online = TRUE, !.online_loaded = okOnline]
              ELSE f1
        o2 == IF f1.online_enabled
              THEN (IF okOnline THEN Online_load_model(NewOnline) ELSE NewOnline)
              ELSE o
        f3 == [f2 EXCEPT !.marian = TRUE, !.marian_loaded = okMarian]
    IN  IF preferred = "marian" /\ f3.marian_loaded
        THEN [f |-> [f3 EXCEPT !.active = "marian"], o |-> o2, raised |-> FALSE]
        ELSE IF f3.online_loaded
        THEN [f |-> [f3 EXCEPT !.active = "online"], o |-> o2, raised |-> FALSE]
        ELSE IF f3.marian_loaded
        THEN [f |-> [f3 EXCEPT !.active = "marian", !.fallen_back = TRUE],
              o |-> o2, raised |-> FALSE]
        ELSE [f |-> f3, o |-> o2, raised |-> TRUE]

\* What _stop_pipeline leaves when no pipeline runs: it returns at once.
NotRunning ==
    [raised |-> FALSE, cap |-> cap, dec |-> dec, tr |-> tr, audio_queue |-> audio_queue,
     emitter |-> emitter, result_queue |-> result_queue,
     translation_queue |-> translation_queue, enqueued |-> enqueued, finals |-> finals,
     stopFinal |-> stopFinal, asr |-> asr, asr_backend |-> asr_backend,
     translation_backend |-> translation_backend, audio_input |-> audio_input, vad |-> vad]

\* The handler of a start command: _stop_pipeline when a pipeline runs, then
\* _initialize_pipeline and _start_threads, with the VAD gate enabled (the
\* default).  asrOk: the ASR model loads; translation: translation.enabled;
\* preferred: translation.backend; okOnline, okMarian: the online and the
\* marian backend load; transOk: load_model of the router does not raise.
\* A load error leaves the objects
\* made so far and starts nothing; _start_threads clears the three queues,
\* and with them the log and the bookkeeping of the session.  (Inputs that are not read are
\* held at one value: d with no pipeline running, the translation backends
\* with translation off, the online backend when marian is preferred.)
OnClientStart ==
    \E d \in DecodeOutcomes, asrOk \in BOOLEAN, translation \in BOOLEAN,
       preferred \in {"online", "marian"}, okOnline \in BOOLEAN, okMarian \in BOOLEAN :
        /\ commands < MaxCommands
        /\ commands' = commands + 1
        /\ translation \/ (preferred = "online" /\ okOnline /\ okMarian)
        /\ preferred = "marian" => okOnline
        /\ running \/ d = "clean"
        /\ \E st \in {IF running THEN _stop_pipeline(d) ELSE NotRunning} :
           LET id == cur + 1
               transOk == ~Fallback_load_model(NewFallback, NewOnline, preferred,
                                               okOnline, okMarian).raised
               tb == IF asrOk /\ translation THEN [obj |-> id, loaded |-> transOk]
                     ELSE st.translation_backend
               ok == ~st.raised /\ asrOk /\ (translation => transOk)
           IN  /\ cur' = IF st.raised THEN cur ELSE id
               /\ audio_input' = IF st.raised THEN st.audio_input
                                 ELSE [obj |-> id, active |-> FALSE]
               /\ vad' = IF st.raised THEN st.vad ELSE NewVad(id, TRUE)
               /\ asr_backend' = IF st.raised THEN st.asr_backend ELSE id
               /\ asr' = IF st.raised THEN st.asr ELSE load_model(NewBackend, asrOk)
               /\ translation_backend' = IF st.raised THEN st.translation_backend ELSE tb
               /\ running' = ok
               /\ audio_queue' = IF ok THEN <<>> ELSE st.audio_queue
               /\ translation_queue' = IF ok THEN <<>> ELSE st.translation_queue
               /\ result_queue' = IF ok THEN <<>> ELSE st.result_queue
               /\ enqueued' = IF ok THEN 0 ELSE st.enqueued
               /\ finals' = IF ok THEN {} ELSE st.finals
               /\ seen' = IF ok THEN NoneSeen ELSE seen
               /\ stopFinal' = IF ok THEN 0 ELSE st.stopFinal
               /\ capture_thread' = IF ok THEN id ELSE capture_thread
               /\ process_thread' = IF ok THEN id ELSE process_thread
               /\ translation_thread' = IF ok /\ tb.obj # 0 THEN id ELSE translation_thread
               /\ cap' = IF ok THEN [Alive(st.cap, NoCapture) EXCEPT
                                          ![id] = [NoCapture EXCEPT !.pc = "start"]]
                         ELSE st.cap
               /\ dec' = IF ok THEN [Alive(st.dec, NoDecoder) EXCEPT
                                          ![id] = [NoDecoder EXCEPT !.pc = "loop"]]
                         ELSE st.dec
               /\ tr' = IF ok
                        THEN IF tb.obj # 0
                             THEN [Alive(st.tr, NoTranslator) EXCEPT
                                       ![id] = [NoTranslator EXCEPT !.pc = "loop"]]
                             ELSE Alive(st.tr, NoTranslator)
                        ELSE st.tr
               /\ emitter' = IF ok THEN "run" ELSE st.emitter
               /\ overdue' = IF ok THEN FALSE ELSE overdue
        /\ UNCHANGED <<now, nextSample, asrGhost>>
        /\ UNCHANGED transVars
        /\ UNCHANGED wsVars
        /\ UNCHANGED aloneVars

\* ---- the capture thread: _capture_loop

\* self._audio_input.start(); it may raise (the device does not open).
CaptureStart(s) ==
    \E ok \in BOOLEAN :
        /\ cap[s].pc = "start"
        /\ IF ok /\ audio_input.obj # 0
           THEN /\ cap' = [cap EXCEPT ![s].pc = "loop"]
                /\ audio_input' = [audio_input EXCEPT !.active = TRUE]
           ELSE /\ cap' = [cap EXCEPT ![s].pc = "done"]
                /\ UNCHANGED audio_input
        /\ UNCHANGED <<commands, running, cur, vad, asr_backend, translation_backend, audio_queue,
                       translation_queue, result_queue, capture_thread, process_thread,
                       translation_thread, dec, tr, emitter, seen, enqueued, finals, stopFinal,
                       overdue>>
        /\ UNCHANGED asrVars
        /\ UNCHANGED transVars
        /\ UNCHANGED wsVars
        /\ UNCHANGED aloneVars

\* The loop body without the audio_queue.full() test.
CaptureStep_mut(s, frame) ==
    [cap EXCEPT ![s] = [pc |-> "put", chunk |-> frame]]

\* The loop body from the chunk read_chunk() returned up to the put: the
\* frame is dropped when audio_queue.full().
CaptureStep(s, frame) ==
    IF Len(audio_queue) >= AudioQueueCap THEN cap
    ELSE [cap EXCEPT ![s] = [pc |-> "put", chunk |-> frame]]

\* One pass of the capture loop in which read_chunk() returned a frame.
CaptureRead(s) ==
    \E sp \in BOOLEAN :
        /\ cap[s].pc = "loop"
        /\ running
        /\ audio_input.obj # 0 /\ audio_input.active
        /\ nextSample <= MaxFrames
        /\ nextSample' = nextSample + 1
        /\ cap' = CaptureStep(s, [id |-> nextSample, speech |-> sp])
        /\ UNCHANGED <<asr, now, asrGhost>>
        /\ UNCHANGED <<commands, running, cur, audio_input, vad, asr_backend, translation_backend,
                       audio_queue, translation_queue, result_queue, capture_thread,
                       process_thread, translation_thread, dec, tr, emitter, seen,
                       enqueued, finals, stopFinal, overdue>>
        /\ UNCHANGED transVars
        /\ UNCHANGED wsVars
        /\ UNCHANGED aloneVars

\* self._audio_queue.put(chunk): blocks while the queue is full.
CapturePut(s) ==
    /\ cap[s].pc = "put"
    /\ Len(audio_queue) < AudioQueueCap
    /\ audio_queue' = Append(audio_queue, cap[s].chunk)
    /\ cap' = [cap EXCEPT ![s] = [pc |-> "loop", chunk |-> NoFrame]]
    /\ UNCHANGED <<commands, running, cur, audio_input, vad, asr_backend, translation_backend,
                   translation_queue, result_queue, capture_thread, process_thread,
                   translation_thread, dec, tr, emitter, seen, enqueued, finals, stopFinal,
                   overdue>>
    /\ UNCHANGED asrVars
    /\ UNCHANGED transVars
    /\ UNCHANGED wsVars
    /\ UNCHANGED aloneVars

\* ---- the decoder thread: _process_loop

\* The ids and the speech flags of a batch of frames.
Ids(frames) == [i \in 1..Len(frames) |-> frames[i].id]
Flags(frames) == [i \in 1..Len(frames) |-> frames[i].speech]

\* An exception leaves the while loop: the thread logs it and ends.
Crashed(d) == [NoDecoder EXCEPT !.pc = "done", !.exit = "crashed"]

\* The assignments that follow _do_finalize() in the loop.
AfterFinalize(d) == [d EXCEPT !.pc = "loop", !.has_pending_audio = FALSE,
                              !.silence_start_time = 0, !.was_speech = FALSE,
                              !.snap = <<>>, !.call = "none", !.obj = 0,
                              !.fed = FALSE, !.silentSince = 0]

\* The silence the decoder has seen since speech was last fed to the engine
\* has lasted SILENCE_FINALIZE_DELAY at time t.
SilenceDue(d, t) == d.fed /\ d.silentSince # 0 /\ t - d.silentSince >= SILENCE_FINALIZE_DELAY

\* The engine call is about to run model.transcribe on the window.
Inferring(d, call) == [d EXCEPT !.pc = "infer", !.call = call, !.snap = asr.audio_buffer,
                                !.obj = asr_backend]

\* audio_queue.get(timeout=0.1) raised Empty: the silence timer is checked.
\* t is time.time().
DecoderTimeout(s) ==
    \E t \in now..MaxTime :
        /\ dec[s].pc = "loop"
        /\ running
        /\ audio_queue = <<>>
        /\ now' = t
        /\ LET d == dec[s]
               due == /\ d.has_pending_audio
                      /\ d.silence_start_time # 0
                      /\ t - d.silence_start_time >= SILENCE_FINALIZE_DELAY
           IN  /\ overdue' = (overdue \/ (SilenceDue(d, t) /\ ~due))
               /\ IF ~due THEN UNCHANGED dec
                  ELSE IF asr_backend = 0 THEN dec' = [dec EXCEPT ![s] = Crashed(d)]
                  ELSE IF finalize_current_call(asr).call = "none"
                       THEN dec' = [dec EXCEPT ![s] = AfterFinalize(d)]
                       ELSE dec' = [dec EXCEPT ![s] = Inferring(d, "timeout")]
        /\ UNCHANGED <<commands, running, cur, audio_input, vad, asr_backend, translation_backend,
                       audio_queue, translation_queue, result_queue, capture_thread,
                       process_thread, translation_thread, cap, tr, emitter, seen,
                       enqueued, finals, stopFinal>>
        /\ UNCHANGED <<asr, nextSample, asrGhost>>
        /\ UNCHANGED transVars
        /\ UNCHANGED wsVars
        /\ UNCHANGED aloneVars

\* `while self._running` fails: a thread that outlasted its join ends.
DecoderExit(s) ==
    /\ dec[s].pc = "loop"
    /\ ~running
    /\ dec' = [dec EXCEPT ![s] = Stopped(NoDecoder)]
    /\ UNCHANGED <<commands, running, cur, audio_input, vad, asr_backend, translation_backend,
                   audio_queue, translation_queue, result_queue, capture_thread,
                   process_thread, translation_thread, cap, tr, emitter, seen,
                   enqueued, finals, stopFinal, overdue>>
    /\ UNCHANGED asrVars
    /\ UNCHANGED transVars
    /\ UNCHANGED wsVars
    /\ UNCHANGED aloneVars

\* The loop body for a batch, up to the call of model.transcribe if there is
\* one: self._vad.process, then transcribe_stream for speech and the silence
\* timer otherwise.  t is time.time(); vadOk: the VAD inference does not
\* raise.  Returns the thread, the VAD gate and the engine.
DecoderBody(d0, batch, t, vadOk) ==
    LET p == process(vad, Flags(batch))
    IN  IF vad.obj = 0 \/ ~vadOk
        THEN [d |-> Crashed(d0), vad |-> vad, asr |-> asr]
        ELSE IF p.ret
        THEN IF asr_backend = 0
             THEN [d |-> Crashed(d0), vad |-> p.v, asr |-> asr]
             ELSE LET c == transcribe_stream_call(asr, Ids(batch), t)
                      d1 == [d0 EXCEPT !.silence_start_time = 0,
                                       !.has_pending_audio = TRUE,
                                       !.was_speech = TRUE]
                  IN  [d |-> IF c.call = "none" THEN d1
                             ELSE [d1 EXCEPT !.pc = "infer", !.call = c.call,
                                             !.snap = c.a.audio_buffer,
                                             !.obj = asr_backend],
                       vad |-> p.v, asr |-> c.a]
        ELSE LET sst == IF d0.was_speech /\ d0.silence_start_time = 0 THEN t
                        ELSE d0.silence_start_time
                 due == /\ sst # 0
                        /\ t - sst >= SILENCE_FINALIZE_DELAY
                        /\ d0.has_pending_audio
                 d1 == [d0 EXCEPT !.silence_start_time = sst]
             IN  IF ~due THEN [d |-> d1, vad |-> p.v, asr |-> asr]
                 ELSE IF asr_backend = 0 THEN [d |-> Crashed(d1), vad |-> p.v, asr |-> asr]
                 ELSE IF finalize_current_call(asr).call = "none"
                 THEN [d |-> AfterFinalize(d1), vad |-> reset(p.v), asr |-> asr]
                 ELSE [d |-> Inferring(d1, "silence"), vad |-> p.v, asr |-> asr]

\* The frames one iteration takes from the queue: the first, and what
\* get_nowait() yields up to BatchMax in all.
Batch(q) == SubSeq(q, 1, IF Len(q) < BatchMax THEN Len(q) ELSE BatchMax)

\* The bookkeeping of what the decoder was given: fed, speech has been fed
\* since the last finalize; silentSince, the time of the first batch without
\* speech since speech was last fed (0: none).
Heard(d, batch, t) ==
    LET speech == \E i \in 1..Len(batch) : batch[i].speech
    IN  [d EXCEPT !.fed = d.fed \/ speech,
                  !.silentSince = IF speech THEN 0
                                  ELSE IF d.fed /\ d.silentSince = 0 THEN t
                                  ELSE d.silentSince]

\* audio_queue.get(timeout=0.1) returned a frame: the batch is drained and
\* processed.  The bookkeeping notes whether speech was fed, since when the
\* batches have been silent, and whether a silence that was due went by
\* without finalize_current().
DecoderBatch(s) ==
    \E t \in now..MaxTime, vadOk \in BOOLEAN :
        /\ dec[s].pc = "loop"
        /\ running
        /\ audio_queue # <<>>
        /\ now' = t
        /\ \E batch \in {Batch(audio_queue)} :
           \E d0 \in {Heard(dec[s], batch, t)} :
           \E b \in {DecoderBody(d0, batch, t, vadOk)} :
               /\ audio_queue' = Drop(audio_queue, Len(batch))
               /\ dec' = [dec EXCEPT ![s] = b.d]
               /\ vad' = b.vad
               /\ asr' = b.asr
               /\ overdue' = (overdue \/ (/\ SilenceDue(d0, t)
                                          /\ b.d.exit # "crashed"
                                          /\ b.d.call # "silence"
                                          /\ b.d.fed))
        /\ UNCHANGED <<commands, running, cur, audio_input, asr_backend, translation_backend,
                       translation_queue, result_queue, capture_thread, process_thread,
                       translation_thread, cap, tr, emitter, seen, enqueued, finals, stopFinal>>
        /\ UNCHANGED <<nextSample, asrGhost>>
        /\ UNCHANGED transVars
        /\ UNCHANGED wsVars
        /\ UNCHANGED aloneVars

\* The rest of the loop body once the engine call has returned.
AfterCall(d) ==
    IF d.call \in {"partial", "forced"}
    THEN [d EXCEPT !.pc = "loop", !.call = "none", !.snap = <<>>, !.obj = 0]
    ELSE IF d.call = "silence" /\ vad.obj = 0 THEN Crashed(d)
    ELSE AfterFinalize(d)

\* model.transcribe returns (or raises): the rest of the engine call, the
\* enqueue of its result, and the rest of the loop body.  t is time.time(),
\* read only where a forced finalize goes on to the throttle.  An engine object
\* that stop has replaced meanwhile is the thread's alone: unloaded, and its
\* state of no further effect.
DecoderInferDone(s) ==
    \E d \in DecodeOutcomes, t \in now..MaxTime :
        /\ dec[s].pc = "infer"
        /\ dec[s].call = "forced" \/ t = now
        /\ now' = t
        /\ \E mine \in {dec[s].obj = asr_backend} :
           \E e \in {inference_return(IF mine THEN asr ELSE NewBackend,
                                      dec[s].snap, dec[s].call, d, t)} :
           \E q \in {_enqueue_asr_result(e.result)} :
               IF e.result.kind = "raise"
               THEN /\ dec' = [dec EXCEPT ![s] = Crashed(dec[s])]
                    /\ UNCHANGED <<asr, vad, result_queue, translation_queue, enqueued, finals>>
               ELSE /\ asr' = IF mine THEN e.a ELSE asr
                    /\ result_queue' = q.result_queue
                    /\ translation_queue' = q.translation_queue
                    /\ enqueued' = q.enqueued
                    /\ finals' = q.finals
                    /\ dec' = IF e.again
                              THEN [dec EXCEPT ![s].call = "partial",
                                               ![s].snap = e.a.audio_buffer]
                              ELSE [dec EXCEPT ![s] = AfterCall(dec[s])]
                    /\ vad' = IF ~e.again /\ dec[s].call = "silence" /\ vad.obj # 0
                              THEN reset(vad) ELSE vad
        /\ UNCHANGED <<commands, running, cur, audio_input, asr_backend, translation_backend,
                       audio_queue, capture_thread, process_thread, translation_thread,
                       cap, tr, emitter, seen, stopFinal, overdue>>
        /\ UNCHANGED <<nextSample, asrGhost>>
        /\ UNCHANGED transVars
        /\ UNCHANGED wsVars
        /\ UNCHANGED aloneVars

\* ---- the translator thread: _translation_loop

\* translation_queue.get(timeout=0.5) returned a job: translate() is called.
\* With the backend dropped by stop the call raises and the loop goes on.
TranslatorGet(s) ==
    /\ tr[s].pc = "loop"
    /\ running
    /\ translation_queue # <<>>
    /\ translation_queue' = Tail(translation_queue)
    /\ tr' = IF translation_backend.obj = 0 THEN tr
             ELSE [tr EXCEPT ![s].pc = "translating", ![s].text = Head(translation_queue).text]
    /\ UNCHANGED <<commands, running, cur, audio_input, vad, asr_backend, translation_backend,
                   audio_queue, result_queue, capture_thread, process_thread,
                   translation_thread, cap, dec, emitter, seen, enqueued, finals, stopFinal,
                   overdue>>
    /\ UNCHANGED asrVars
    /\ UNCHANGED transVars
    /\ UNCHANGED wsVars
    /\ UNCHANGED aloneVars

\* A translation_update message: source_text is the text of the job.
UpdateMessage(text) ==
    [id |-> enqueued + 1, type |-> "translation_update", text |-> text]

\* translate() returns: with a translation (the update is put on
\* result_queue) or without one (an empty translation, or an exception the
\* loop logs).
TranslatorDone(s) ==
    \E translated \in BOOLEAN :
        /\ tr[s].pc = "translating"
        /\ tr' = [tr EXCEPT ![s].pc = "loop", ![s].text = NoText]
        /\ IF translated
           THEN /\ result_queue' = Append(result_queue, UpdateMessage(tr[s].text))
                /\ enqueued' = enqueued + 1
           ELSE UNCHANGED <<result_queue, enqueued>>
        /\ UNCHANGED finals
        /\ UNCHANGED <<commands, running, cur, audio_input, vad, asr_backend, translation_backend,
                       audio_queue, translation_queue, capture_thread, process_thread,
                       translation_thread, cap, dec, emitter, seen, stopFinal, overdue>>
        /\ UNCHANGED asrVars
        /\ UNCHANGED transVars
        /\ UNCHANGED wsVars
        /\ UNCHANGED aloneVars

\* `while self._running` fails: a thread that outlasted its join ends.
TranslatorExit(s) ==
    /\ tr[s].pc = "loop"
    /\ ~running
    /\ tr' = [tr EXCEPT ![s] = Stopped(NoTranslator)]
    /\ UNCHANGED <<commands, running, cur, audio_input, vad, asr_backend, translation_backend,
                   audio_queue, translation_queue, result_queue, capture_thread,
                   process_thread, translation_thread, cap, dec, emitter, seen,
                   enqueued, finals, stopFinal, overdue>>
    /\ UNCHANGED asrVars
    /\ UNCHANGED transVars
    /\ UNCHANGED wsVars
    /\ UNCHANGED aloneVars

\* ---- the emitter task: _broadcast_loop

\* The client receives message msg.
Receive(sn, msg) ==
    [ids |-> sn.ids \cup {msg.id},
     finals |-> IF msg.type = "final" THEN sn.finals \cup Units(msg.text.audio)
                ELSE sn.finals,
     late |-> sn.late \/ (msg.type = "partial" /\ Units(msg.text.audio) \cap sn.finals # {}),
     disorder |-> sn.disorder \/ (\E i \in sn.ids : i >= msg.id)]

\* The client receives the messages msgs, in their order.
RECURSIVE ReceiveAll(_, _)
ReceiveAll(sn, msgs) ==
    IF msgs = <<>> THEN sn ELSE ReceiveAll(Receive(sn, Head(msgs)), Tail(msgs))

\* One pass of the task: up to EmitBatch messages are taken from result_queue
\* and sent to the client that sent the start command (taken to stay
\* connected).
EmitterSend ==
    /\ emitter = "run"
    /\ running
    /\ result_queue # <<>>
    /\ LET n == IF Len(result_queue) < EmitBatch THEN Len(result_queue) ELSE EmitBatch
       IN  /\ result_queue' = Drop(result_queue, n)
           /\ seen' = ReceiveAll(seen, SubSeq(result_queue, 1, n))
    /\ UNCHANGED <<commands, running, cur, audio_input, vad, asr_backend, translation_backend,
                   audio_queue, translation_queue, capture_thread, process_thread,
                   translation_thread, cap, dec, tr, emitter, enqueued, finals, stopFinal,
                   overdue>>
    /\ UNCHANGED asrVars
    /\ UNCHANGED transVars
    /\ UNCHANGED wsVars
    /\ UNCHANGED aloneVars

Next ==
    \/ OnClientStart \/ OnClientStop
    \/ \E s \in Sessions :
          \/ CaptureStart(s) \/ CaptureRead(s) \/ CapturePut(s)
          \/ DecoderBatch(s) \/ DecoderTimeout(s) \/ DecoderExit(s) \/ DecoderInferDone(s)
          \/ TranslatorGet(s) \/ TranslatorDone(s) \/ TranslatorExit(s)
    \/ EmitterSend

Spec == Init /\ [][Next]_vars

InitAsr ==
    /\ asr = load_model(NewBackend, TRUE)
    /\ now = InferenceInterval
    /\ nextSample = 1
    /\ lastCall = [op |-> "load_model", ended |-> "returned", result |-> None, window |-> <<>>]
    /\ committed = {}
    /\ redecoded = FALSE
    /\ PipeIdle
    /\ TransIdle
    /\ WsIdle

AsrTick ==
    /\ now < MaxTime
    /\ now' = now + 1
    /\ UNCHANGED <<asr, nextSample, lastCall, committed, redecoded>>
    /\ UNCHANGED pipeVars
    /\ UNCHANGED transVars
    /\ UNCHANGED wsVars
    /\ UNCHANGED aloneVars

AsrTranscribe ==
    \E n \in 0..MaxChunk, d \in DecodeOutcomes :
        /\ nextSample + n <= MaxStream + 1
        /\ LET r == transcribe_stream(asr, Chunk(n), now, d)
           IN  /\ asr' = r.a
               /\ Record("transcribe_stream", asr.audio_buffer \o Chunk(n), r)
        /\ nextSample' = nextSample + n
        /\ UNCHANGED now
        /\ UNCHANGED pipeVars
        /\ UNCHANGED transVars
        /\ UNCHANGED wsVars
        /\ UNCHANGED aloneVars

AsrFinalize ==
    \E d \in DecodeOutcomes :
        /\ LET r == finalize_current(asr, d)
           IN  /\ asr' = r.a
               /\ Record("finalize_current", asr.audio_buffer, r)
        /\ UNCHANGED <<now, nextSample>>
        /\ UNCHANGED pipeVars
        /\ UNCHANGED transVars
        /\ UNCHANGED wsVars
        /\ UNCHANGED aloneVars

AsrReset ==
    /\ asr' = reset_stream(asr)
    /\ lastCall' = [op |-> "reset_stream", ended |-> "returned", result |-> None,
                    window |-> asr.audio_buffer]
    /\ UNCHANGED <<now, nextSample, committed, redecoded>>
    /\ UNCHANGED pipeVars
    /\ UNCHANGED transVars
    /\ UNCHANGED wsVars
    /\ UNCHANGED aloneVars

AsrUnload ==
    /\ asr' = unload_model(asr)
    /\ lastCall' = [op |-> "unload_model", ended |-> "returned", result |-> None,
                    window |-> asr.audio_buffer]
    /\ UNCHANGED <<now, nextSample, committed, redecoded>>
    /\ UNCHANGED pipeVars
    /\ UNCHANGED transVars
    /\ UNCHANGED wsVars
    /\ UNCHANGED aloneVars

AsrLoad ==
    \E ok \in BOOLEAN :
        /\ ~asr.model
        /\ asr' = load_model(asr, ok)
        /\ lastCall' = [op |-> "load_model", ended |-> IF ok THEN "returned" ELSE "raised",
                        result |-> None, window |-> asr.audio_buffer]
        /\ UNCHANGED <<now, nextSample, committed, redecoded>>
        /\ UNCHANGED pipeVars
    /\ UNCHANGED pipeVars
    /\ UNCHANGED transVars
    /\ UNCHANGED wsVars
    /\ UNCHANGED aloneVars

NextAsr == AsrTick \/ AsrTranscribe \/ AsrFinalize \/ AsrReset \/ AsrUnload \/ AsrLoad

SpecAsr == InitAsr /\ [][NextAsr]_asrVars


\* ======================================================================
\* Part 3: the translation router (engine/translation/fallback_backend.py)
\* with its online backend (engine/translation/online_backend.py).  A call
\* of translate is one step; t is time.time() when it starts, and the
\* call lasts as long as the rate limit makes it sleep.

\* ---- OnlineBackend

Min(a, b) == IF a < b THEN a ELSE b

\* The element of a set of one element: The({e(x) : x \in {v}}) is e with x
\* standing for the value of v.
The(S) == CHOOSE x \in S : TRUE

Online_unload_model(o) == [o EXCEPT !.loaded = FALSE, !.cache = <<>>]

_activate_backoff(o, t) ==
    [o EXCEPT !.backoff_until = t + o.current_backoff,
              !.current_backoff = Min(o.current_backoff * BACKOFF_MULTIPLIER,
                                      MAX_BACKOFF_SECONDS)]

_on_success(o) ==
    [o EXCEPT !.consecutive_failures = 0, !.current_backoff = INITIAL_BACKOFF_SECONDS]

_on_failure(o) == [o EXCEPT !.consecutive_failures = @ + 1]

reset_failures(o) ==
    [o EXCEPT !.consecutive_failures = 0, !.current_backoff = INITIAL_BACKOFF_SECONDS,
              !.backoff_until = 0]

is_available(o, t) ==
    IF o.consecutive_failures >= MAX_CONSECUTIVE_FAILURES THEN FALSE
    ELSE IF t < o.backoff_until THEN FALSE
    ELSE TRUE

\* The lookup without move_to_end: a hit is not a use.
_cache_get_mut(o, key) ==
    IF \E i \in 1..Len(o.cache) : o.cache[i].key = key
    THEN LET i == CHOOSE k \in 1..Len(o.cache) : o.cache[k].key = key
         IN  [o |-> o, value |-> o.cache[i].value]
    ELSE [o |-> o, value |-> "none"]

\* The cached translation of key ("none": no entry); a hit moves the entry
\* to the end.
_cache_get(o, key) ==
    IF \E i \in 1..Len(o.cache) : o.cache[i].key = key
    THEN LET i == CHOOSE k \in 1..Len(o.cache) : o.cache[k].key = key
         IN  [o |-> [o EXCEPT !.cache = Append(SelectSeq(o.cache, LAMBDA e : e.key # key),
                                               o.cache[i])],
              value |-> o.cache[i].value]
    ELSE [o |-> o, value |-> "none"]

\* self._cache[key] = value (an entry that exists keeps its place), then the
\* first entry is dropped when the cache is over its size.
_cache_put(o, key, value) ==
    LET c == IF \E i \in 1..Len(o.cache) : o.cache[i].key = key
             THEN [i \in 1..Len(o.cache) |->
                       IF o.cache[i].key = key THEN [key |-> key, value |-> value]
                       ELSE o.cache[i]]
             ELSE Append(o.cache, [key |-> key, value |-> value])
    IN  [o EXCEPT !.cache = IF Len(c) > MAX_CACHE_SIZE THEN Tail(c) ELSE c]

\* Under _rate_lock: the timestamps of the last window are kept; at capacity
\* the call sleeps until the oldest has left the window; the time after the
\* sleep is appended.  Returns the backend and that time.
_wait_for_rate_limit_mut(o, t) ==
    The({ [o |-> [o EXCEPT !.request_timestamps = Append(kept, t)], t |-> t] :
          kept \in {SelectSeq(o.request_timestamps, LAMBDA x : x > t - RateWindow)} })

_wait_for_rate_limit(o, t) ==
    The({ LET wait == RateWindow - (t - kept[1]) + RateMargin
              t2 == IF Len(kept) >= MAX_REQUESTS_PER_MINUTE /\ wait > 0 THEN t + wait ELSE t
          IN  [o |-> [o EXCEPT !.request_timestamps = Append(kept, t2)], t |-> t2] :
          kept \in {SelectSeq(o.request_timestamps, LAMBDA x : x > t - RateWindow)} })

\* The HTTP request, meeting h at time t: what it returns ("text", or
\* "empty" for the empty string) or raises.
_do_request(o, h, t) ==
    IF h \in {"ok", "empty"} THEN [o |-> o, kind |-> IF h = "ok" THEN "text" ELSE "empty"]
    ELSE IF h \in {"http429", "http500"}
    THEN [o |-> _activate_backoff(o, t), kind |-> "TranslationError"]
    ELSE IF h \in {"http404", "network"} THEN [o |-> o, kind |-> "TranslationError"]
    ELSE [o |-> o, kind |-> "Exception"]

\* cache_key of _translate_single
cache_key(source_lang, target_lang, text) == <<source_lang, target_lang, strip(text)>>

\* One sentence: the cache, the rate limit, the request.  requests holds the
\* instant of the HTTP request if one was issued.
_translate_single(o, text, source_lang, target_lang, h, t) ==
    IF strip(text) = <<>> THEN [o |-> o, t |-> t, ret |-> "empty", requests |-> <<>>]
    ELSE
    The({ IF c.value # "none"
          THEN [o |-> c.o, t |-> t, ret |-> c.value, requests |-> <<>>]
          ELSE The({ The({
                   IF r.kind \in {"text", "empty"}
                   THEN [o |-> _cache_put(_on_success(r.o), cache_key(source_lang, target_lang, text), r.kind), t |-> w.t,
                         ret |-> r.kind, requests |-> <<w.t>>]
                   ELSE IF r.kind = "TranslationError"
                   THEN [o |-> r.o, t |-> w.t, ret |-> "raise", requests |-> <<w.t>>]
                   ELSE [o |-> _on_failure(r.o), t |-> w.t, ret |-> "raise",
                         requests |-> <<w.t>>] :
                   r \in {_do_request(w.o, h, w.t)} }) :
               w \in {_wait_for_rate_limit(c.o, t)} }) :
          c \in {_cache_get(o, cache_key(source_lang, target_lang, text))} })

\* OnlineBackend.translate of a text of one sentence: a blank text is
\* answered with an empty translation, then the backoff window is checked.
Online_translate(o, text, source_lang, target_lang, h, t) ==
    IF strip(text) = <<>> THEN [o |-> o, t |-> t, ret |-> "empty", requests |-> <<>>]
    ELSE IF t < o.backoff_until
    THEN [o |-> o, t |-> t, ret |-> "raise", requests |-> <<>>]
    ELSE _translate_single(o, text, source_lang, target_lang, h, t)

\* ---- FallbackTranslationBackend


Fallback_unload_model(f, o) ==
    [f |-> [f EXCEPT !.online = FALSE, !.online_loaded = FALSE, !.marian = FALSE,
                     !.marian_loaded = FALSE, !.active = "none", !.fallen_back = FALSE],
     o |-> IF f.online THEN Online_unload_model(o) ELSE o]

\* _switch_to_marian without its check that marian is loaded.
_switch_to_marian_mut(f, t) ==
    IF f.active = "marian" THEN f
    ELSE [f EXCEPT !.active = "marian", !.fallen_back = TRUE, !.last_online_retry = t]

\* FallbackTranslationBackend._switch_to_marian at time t
_switch_to_marian(f, t) ==
    IF ~f.marian_loaded THEN f
    ELSE IF f.active = "marian" THEN f
    ELSE [f EXCEPT !.active = "marian", !.fallen_back = TRUE, !.last_online_retry = t]

_switch_to_online(f, o) ==
    [f |-> [f EXCEPT !.active = "online", !.fallen_back = FALSE],
     o |-> IF f.online THEN reset_failures(o) ELSE o]

\* _try_marian without its except clause: the exception of the marian
\* backend leaves the router.
_try_marian_mut(f, m) ==
    IF ~f.marian \/ ~f.marian_loaded THEN [ret |-> "empty", served |-> "none"]
    ELSE IF m = "ok" THEN [ret |-> "text", served |-> "marian"]
    ELSE IF m = "raise" THEN [ret |-> "raise", served |-> "none"]
    ELSE [ret |-> "empty", served |-> "none"]

\* The marian backend meets m: the translation returned ("empty": none) and
\* the backend that produced it.
_try_marian(f, m) ==
    IF ~f.marian \/ ~f.marian_loaded THEN [ret |-> "empty", served |-> "none"]
    ELSE IF m = "ok" THEN [ret |-> "text", served |-> "marian"]
    ELSE [ret |-> "empty", served |-> "none"]

\* The online backend is tried; when it is not available, raises, or returns
\* an empty translation, the router switches to marian after
\* MAX_CONSECUTIVE_FAILURES counted failures, and marian serves the request.
\* tried: online.translate was called; failed: the except branch ran.
_try_online(f, o, text, source_lang, target_lang, h, m, t) ==
    The({ IF r.ret = "text"
          THEN [f |-> f, o |-> r.o, t |-> r.t, ret |-> "text", served |-> "online",
                requests |-> r.requests, tried |-> TRUE, failed |-> FALSE]
          ELSE The({ The({
                   [f |-> f2, o |-> r.o, t |-> r.t, ret |-> mr.ret, served |-> mr.served,
                    requests |-> r.requests, tried |-> f.online /\ is_available(o, t),
                    failed |-> TRUE] :
                   mr \in {IF f2.marian_loaded THEN _try_marian(f2, m)
                           ELSE [ret |-> "empty", served |-> "none"]} }) :
               f2 \in {IF f.online /\ r.o.consecutive_failures >= 3
                       THEN _switch_to_marian(f, r.t) ELSE f} }) :
          r \in {IF f.online /\ is_available(o, t) THEN Online_translate(o, text, source_lang, target_lang, h, t)
                 ELSE [o |-> o, t |-> t, ret |-> "raise", requests |-> <<>>]} })

\* The probe of the online backend while fallen back, meeting hp at time t;
\* the texts are short, so the probe text is the text.  probe: "none" (the
\* interval has not elapsed), "skipped" (the online backend is not loaded),
\* "switched" or "stayed".
_maybe_retry_online_mut(f, o, text, source_lang, target_lang, hp, t) ==
    The({ IF ~f.online \/ ~o1.loaded
          THEN [f |-> [f EXCEPT !.last_online_retry = t], o |-> o1, t |-> t,
                probe |-> "skipped", requests |-> <<>>]
          ELSE The({
                   IF r.ret = "text"
                   THEN [f |-> _switch_to_online([f EXCEPT !.last_online_retry = t], r.o).f,
                         o |-> _switch_to_online([f EXCEPT !.last_online_retry = t], r.o).o,
                         t |-> r.t, probe |-> "switched", requests |-> r.requests]
                   ELSE [f |-> [f EXCEPT !.last_online_retry = t], o |-> r.o, t |-> r.t,
                         probe |-> "stayed", requests |-> r.requests] :
                   r \in {Online_translate(o1, text, source_lang, target_lang, hp, t)} }) :
          o1 \in {IF f.online THEN reset_failures(o) ELSE o} })

_maybe_retry_online(f, o, text, source_lang, target_lang, hp, t) ==
    IF t - f.last_online_retry < ONLINE_RETRY_INTERVAL
    THEN [f |-> f, o |-> o, t |-> t, probe |-> "none", requests |-> <<>>]
    ELSE
    The({ IF ~f.online \/ ~o1.loaded
          THEN [f |-> [f EXCEPT !.last_online_retry = t], o |-> o1, t |-> t,
                probe |-> "skipped", requests |-> <<>>]
          ELSE The({
                   IF r.ret = "text"
                   THEN [f |-> _switch_to_online([f EXCEPT !.last_online_retry = t], r.o).f,
                         o |-> _switch_to_online([f EXCEPT !.last_online_retry = t], r.o).o,
                         t |-> r.t, probe |-> "switched", requests |-> r.requests]
                   ELSE [f |-> [f EXCEPT !.last_online_retry = t], o |-> r.o, t |-> r.t,
                         probe |-> "stayed", requests |-> r.requests] :
                   r \in {Online_translate(o1, text, source_lang, target_lang, hp, t)} }) :
          o1 \in {IF f.online THEN reset_failures(o) ELSE o} })

\* translate of the router: a blank text is answered with an empty
\* translation; otherwise the probe if one is due, then the active backend.
\* hp, h, m: what the probe's request, the request and the marian backend
\* meet.
Fallback_translate(f, o, text, source_lang, target_lang, hp, h, m, t) ==
    IF strip(text) = <<>>
    THEN [f |-> f, o |-> o, t |-> t, ret |-> "empty", served |-> "none", probe |-> "none",
          probeResponse |-> "none", tried |-> FALSE, response |-> "none"]
    ELSE
    The({ IF p.f.active = "online"
          THEN The({
                   [f |-> on.f, o |-> on.o, t |-> on.t, ret |-> on.ret,
                    served |-> on.served, probe |-> p.probe,
                    probeResponse |-> IF p.requests # <<>> THEN hp ELSE "none",
                    tried |-> on.tried,
                    response |-> IF on.requests # <<>> THEN h ELSE "none"] :
                   on \in {_try_online(p.f, p.o, text, source_lang, target_lang, h, m, p.t)} })
          ELSE The({
                   [f |-> p.f, o |-> p.o, t |-> p.t, ret |-> ma.ret, served |-> ma.served,
                    probe |-> p.probe,
                    probeResponse |-> IF p.requests # <<>> THEN hp ELSE "none",
                    tried |-> FALSE, response |-> "none"] :
                   ma \in {_try_marian(p.f, m)} }) :
          p \in {IF f.fallen_back /\ f.online_loaded
                 THEN _maybe_retry_online(f, o, text, source_lang, target_lang, hp, t)
                 ELSE [f |-> f, o |-> o, t |-> t, probe |-> "none", requests |-> <<>>]} })

\* The streak of failed HTTP requests after a request that met h ("none":
\* no request).
Streak(n, h) ==
    IF h = "none" THEN n
    ELSE IF h \in {"ok", "empty"} THEN 0
    ELSE Min(n + 1, MAX_CONSECUTIVE_FAILURES)

\* The keys by last use after a use of key k.
Used(uses, k) == Append(SelectSeq(uses, LAMBDA x : x # k), k)

\* ---- the router in use: SpecTr

InitTr ==
    /\ asr = NewBackend
    /\ now = 0
    /\ nextSample = 1
    /\ lastCall = [op |-> "none", ended |-> "returned", result |-> None, window |-> <<>>]
    /\ committed = {}
    /\ redecoded = FALSE
    /\ PipeIdle
    /\ TransIdle
    /\ WsIdle

\* Time passes: the last call is no longer the call that has just returned.
TrTick ==
    /\ now < MaxClock
    /\ now' = now + 1
    /\ lastRequest' = [NoCall EXCEPT !.streak = lastRequest.streak]
    /\ UNCHANGED <<router, online, cacheUses>>
    /\ UNCHANGED <<asr, nextSample, asrGhost>>
    /\ UNCHANGED pipeVars
    /\ UNCHANGED wsVars
    /\ UNCHANGED aloneVars

\* _initialize_pipeline with translation enabled: a new router is made and
\* loaded.
RouterLoad ==
    \E preferred \in {"online", "marian", "other"}, okOnline \in BOOLEAN, okMarian \in BOOLEAN :
        /\ router.active = "none"
        /\ preferred = "marian" => okOnline
        /\ \E r \in {Fallback_load_model(NewFallback, NewOnline, preferred, okOnline, okMarian)} :
               /\ router' = r.f
               /\ online' = r.o
               /\ lastRequest' = [NoCall EXCEPT !.op = "load_model",
                                                !.preferred = preferred,
                                                !.raised = r.raised]
        /\ cacheUses' = <<>>
        /\ UNCHANGED <<asr, now, nextSample, asrGhost>>
        /\ UNCHANGED pipeVars
        /\ UNCHANGED wsVars
        /\ UNCHANGED aloneVars

\* _stop_pipeline: the router is unloaded.
RouterUnload ==
    /\ router.active # "none"
    /\ \E r \in {Fallback_unload_model(router, online)} :
           /\ router' = r.f
           /\ online' = r.o
    /\ lastRequest' = [NoCall EXCEPT !.op = "unload_model", !.streak = lastRequest.streak]
    /\ cacheUses' = <<>>
    /\ UNCHANGED <<asr, now, nextSample, asrGhost>>
    /\ UNCHANGED pipeVars
    /\ UNCHANGED wsVars
    /\ UNCHANGED aloneVars

\* One job of _translation_loop: translate(text) at time now, and the
\* translation_update message made of a translation that is not empty
\* (update is its translation_backend, read from active_backend after the
\* call).  The call lasts as long as the rate limit sleeps.  An input the
\* call does not read is held at one value.  A thread of a stopped session
\* that outlasted its join calls the router after unload_model.
RouterTranslate ==
    \E text \in Texts, h \in HttpOutcomes, m \in MarianOutcomes,
       hp \in IF router.fallen_back /\ router.online_loaded
                 /\ now - router.last_online_retry >= ONLINE_RETRY_INTERVAL
              THEN HttpOutcomes ELSE {"ok"} :
        /\ \E r \in {Fallback_translate(router, online, text, src_lang, tgt_lang, hp, h, m, now)} :
               /\ r.t <= MaxClock
               /\ r.probeResponse = "none" => hp = "ok"
               /\ r.response = "none" => h = "ok"
               /\ r.served = "online" => m = "ok"
               /\ now' = r.t
               /\ router' = r.f
               /\ online' = r.o
               /\ lastRequest' = [NoCall EXCEPT
                      !.op = "translate",
                      !.probe = r.probe, !.probeResponse = r.probeResponse,
                      !.tried = r.tried, !.response = r.response, !.served = r.served,
                      !.update = IF r.ret = "text" THEN r.f.active ELSE "none",
                      !.raised = (r.ret = "raise"), !.ret = r.ret, !.text = text,
                      !.streak = Streak(Streak(lastRequest.streak, r.probeResponse),
                                        r.response)]
               /\ cacheUses' = IF \/ (r.probe \in {"switched", "stayed"}
                                       /\ r.probeResponse \in {"ok", "empty", "none"})
                                   \/ (r.tried /\ r.response \in {"ok", "empty", "none"})
                                THEN Used(cacheUses, <<src_lang, tgt_lang, strip(text)>>)
                                ELSE cacheUses
        /\ UNCHANGED <<asr, nextSample, asrGhost>>
        /\ UNCHANGED pipeVars
        /\ UNCHANGED wsVars
        /\ UNCHANGED aloneVars

\* ---- the online backend alone: SpecOnline

\* The texts sent to the online backend: a blank text, and one-letter texts
\* bare or with a blank on each side.
RawTexts ==
    {<<Blank>>} \cup {<<c>> : c \in 1..MaxLetters}
                \cup {<<Blank, c, Blank>> : c \in 1..MaxLetters}

\* What the HTTP requests meet in a run of SpecOnline: a translation, an
\* empty one, or an error.
CacheOutcomes == {"ok", "empty", "network"}

\* The source languages of the requests; the target language is tgt_lang.
SourceLangs == {"auto", "en"}

InitOnline ==
    /\ asr = NewBackend
    /\ now = 0
    /\ nextSample = 1
    /\ lastCall = [op |-> "none", ended |-> "returned", result |-> None, window |-> <<>>]
    /\ committed = {}
    /\ redecoded = FALSE
    /\ PipeIdle
    /\ router = NewFallback
    /\ online = Online_load_model(NewOnline)
    /\ lastRequest = NoCall
    /\ cacheUses = <<>>
    /\ WsIdle

\* translate of the online backend, meeting h at time now.  A call that
\* returns without raising has hit the cache or inserted into it, unless the
\* text is blank.
OnlineTranslate ==
    \E text \in RawTexts, source_lang \in SourceLangs, h \in CacheOutcomes :
        /\ online.loaded
        /\ \E r \in {Online_translate(online, text, source_lang, tgt_lang, h, now)} :
               /\ r.t <= MaxClock
               /\ r.requests = <<>> => h = "ok"
               /\ now' = r.t
               /\ online' = r.o
               /\ lastRequest' = [NoCall EXCEPT
                      !.op = "online_translate",
                      !.response = IF r.requests # <<>> THEN h ELSE "none",
                      !.raised = (r.ret = "raise"), !.ret = r.ret, !.text = text,
                      !.source_lang = source_lang]
               /\ cacheUses' = IF r.ret # "raise" /\ strip(text) # <<>>
                                THEN Used(cacheUses, <<source_lang, tgt_lang, strip(text)>>)
                                ELSE cacheUses
        /\ UNCHANGED router
        /\ UNCHANGED <<asr, nextSample, asrGhost>>
        /\ UNCHANGED pipeVars
        /\ UNCHANGED wsVars
        /\ UNCHANGED aloneVars

\* unload_model, then load_model, of the online backend: the cache is
\* cleared.
OnlineReload ==
    /\ online.cache # <<>>
    /\ online' = Online_load_model(Online_unload_model(online))
    /\ lastRequest' = [NoCall EXCEPT !.op = "unload_model"]
    /\ cacheUses' = <<>>
    /\ UNCHANGED router
    /\ UNCHANGED <<asr, now, nextSample, asrGhost>>
    /\ UNCHANGED pipeVars
    /\ UNCHANGED wsVars
    /\ UNCHANGED aloneVars

NextOnline == TrTick \/ OnlineTranslate \/ OnlineReload

SpecOnline == InitOnline /\ [][NextOnline]_vars

NextTr == TrTick \/ RouterLoad \/ RouterUnload \/ RouterTranslate

SpecTr == InitTr /\ [][NextTr]_vars

\* ---- the decoder's segments and the cleaning layers: SpecDecode

\* The words the decoder writes in SpecDecode, as their characters: "ok"
\* and "a".  A text is the sequence of its words, which single blanks part.
Words == {<<1, 2>>, <<3>>}

\* The characters from Upper on are the upper-case forms of those below.
Upper == 32

\* str.lower() of a word.
lower(w) == [i \in 1..Len(w) |-> w[i] % Upper]

\* The words of a list, each in lower case.
Lower(words) == [i \in 1..Len(words) |-> lower(words[i])]

\* len(" ".join(words))
RECURSIVE TextLen(_)
TextLen(words) ==
    IF words = <<>> THEN 0
    ELSE IF Len(words) = 1 THEN Len(words[1])
    ELSE Len(Head(words)) + 1 + TextLen(Tail(words))

\* Pass 1 of _remove_repetitions from word i on: of a run of one word the
\* first two are kept.
RECURSIVE Pass1(_, _, _, _)
Pass1(words, i, deduplicated, repeat_count) ==
    IF i > Len(words) THEN deduplicated
    ELSE IF lower(words[i]) = lower(words[i - 1])
         THEN Pass1(words, i + 1,
                    IF repeat_count + 1 <= 2 THEN Append(deduplicated, words[i])
                    ELSE deduplicated,
                    repeat_count + 1)
         ELSE Pass1(words, i + 1, Append(deduplicated, words[i]), 1)

\* result[i:i + n] in lower case (i counts from 0).
Block(result, i, n) == Lower(SubSeq(result, i + 1, i + n))

\* Pass 2: the places where an n-gram is followed by itself.
Repeats(result, n) ==
    {i \in 0..Len(result) : /\ i + n * 2 <= Len(result)
                             /\ Block(result, i, n) = Block(result, i + n, n)}

\* Pass 2: the end of the consecutive repeats of the pattern from pos on.
RECURSIVE SkipRepeats(_, _, _, _)
SkipRepeats(result, pattern_lower, pos, n) ==
    IF pos + n <= Len(result) /\ Block(result, pos, n) = pattern_lower
    THEN SkipRepeats(result, pattern_lower, pos + n, n)
    ELSE pos

\* Pass 2: new_result when the first repeated n-gram is found: the words
\* before it, the pattern once, and what follows its repeats.
CutRepeat(result, n) ==
    The({ SubSeq(result, 1, i + n)
            \o SubSeq(result, SkipRepeats(result, Block(result, i, n), i + n, n) + 1,
                      Len(result))
          : i \in {j \in Repeats(result, n) : \A k \in Repeats(result, n) : j <= k} })

\* Pass 2: the while loop; the for loop takes the smallest n of 2..10 with a
\* repeat.
RECURSIVE Pass2(_)
Pass2(result) ==
    IF \A n \in 2..Min(10, Len(result) \div 2) : Repeats(result, n) = {}
    THEN result
    ELSE Pass2(The({ CutRepeat(result, n)
                     : n \in {m \in 2..Min(10, Len(result) \div 2) :
                                 /\ Repeats(result, m) # {}
                                 /\ \A k \in 2..(m - 1) : Repeats(result, k) = {}} }))

\* Pass 3: Counter(...)[word]
Count(result, word) == Cardinality({i \in 1..Len(result) : lower(result[i]) = word})

\* Pass 3: most_common(1): the most frequent word, the first met of those.
most_common(result) ==
    The({ lower(result[i])
          : i \in {j \in 1..Len(result) :
                     /\ \A k \in 1..Len(result) :
                            Count(result, lower(result[k])) <= Count(result, lower(result[j]))
                     /\ \A k \in 1..(j - 1) :
                            Count(result, lower(result[k])) < Count(result, lower(result[j]))} })

\* Pass 3: the words before the fourth occurrence of the word.
Trimmed(result, word) ==
    IF Count(result, word) <= 3 THEN result
    ELSE The({ SubSeq(result, 1, i - 1)
               : i \in {j \in 1..Len(result) :
                          /\ lower(result[j]) = word
                          /\ Count(SubSeq(result, 1, j), word) = 4} })

\* Pass 3: the dominant word check (count > total * 0.4 and total > 5).
Pass3(result) ==
    IF /\ 10 * Count(result, most_common(result)) > 4 * Len(result)
       /\ Len(result) > 5
    THEN Trimmed(result, most_common(result))
    ELSE result

\* FasterWhisperBackend._remove_repetitions
_remove_repetitions(text) ==
    IF TextLen(text) < 10 THEN text
    ELSE IF Len(text) < 3 THEN text
    ELSE IF Len(Pass1(text, 2, <<text[1]>>, 1)) < 4 THEN Pass1(text, 2, <<text[1]>>, 1)
    ELSE IF Len(Pass2(Pass1(text, 2, <<text[1]>>, 1))) < 2
         THEN Pass2(Pass1(text, 2, <<text[1]>>, 1))
    ELSE Pass3(Pass2(Pass1(text, 2, <<text[1]>>, 1)))

\* int(audio_duration * MAX_WORDS_PER_SECOND) for a window of so many units.
MaxWords(units) == (units * max_buffer_duration * MAX_WORDS_PER_SECOND) \div MaxSamples

\* FasterWhisperBackend._enforce_length_limit
_enforce_length_limit(text, units) ==
    IF Len(text) > (IF MaxWords(units) > 5 THEN MaxWords(units) ELSE 5)
    THEN SubSeq(text, 1, IF MaxWords(units) > 5 THEN MaxWords(units) ELSE 5)
    ELSE text

\* raw_text of _run_inference: the texts of the segments that are not blank.
RECURSIVE raw_text(_)
raw_text(segments) ==
    IF segments = <<>> THEN <<>> ELSE Head(segments) \o raw_text(Tail(segments))

\* is_hallucination with a threshold of one half.
is_hallucination_mut(raw, cleaned) == 10 * TextLen(cleaned) < 5 * TextLen(raw)

\* is_hallucination of _run_inference: len(cleaned_text) < len(raw_text) * 0.7
is_hallucination(raw, cleaned) == 10 * TextLen(cleaned) < 7 * TextLen(raw)

\* What _run_inference makes of the segments the decoder returned for a
\* window of so many units, removed being _remove_repetitions(raw_text).
Decoded(segments, removed, units) ==
    IF \/ segments = <<>>
       \/ raw_text(segments) = <<>>
       \/ _enforce_length_limit(removed, units) = <<>>
    THEN "empty"
    ELSE IF is_hallucination(raw_text(segments), _enforce_length_limit(removed, units))
         THEN "halluc"
    ELSE "clean"

\* The texts of a decoder segment, and the lists of segments model.transcribe
\* returns.
SegmentTexts == UNION {[1..n -> Words] : n \in 0..MaxSegWords}

SegmentLists == UNION {[1..k -> SegmentTexts] : k \in 0..MaxSegments}

InitDecode ==
    /\ asr = load_model(NewBackend, TRUE)
    /\ now = InferenceInterval
    /\ nextSample = 1
    /\ lastCall = [op |-> "load_model", ended |-> "returned", result |-> None, window |-> <<>>]
    /\ committed = {}
    /\ redecoded = FALSE
    /\ PipeIdle
    /\ TransIdle
    /\ ws = NewServer
    /\ wsLast = NoStep
    /\ vadLast = NoVadCall
    /\ cleaning = NoCleaning
    /\ \E segments \in SegmentLists :
           decoding = [NoInference EXCEPT !.segments = segments,
                                          !.removed = _remove_repetitions(raw_text(segments))]

\* The record of an engine call that ran the inference call on the window
\* and ended with r.
Inferred(op, call, window, r) ==
    [segments |-> decoding.segments, removed |-> decoding.removed, op |-> op, call |-> call,
     window |-> IF call = "none" THEN <<>> ELSE window,
     raw |-> IF call = "none" THEN <<>> ELSE raw_text(decoding.segments),
     kind |-> r.result.kind, is_final |-> r.result.is_final,
     text |-> IF r.result.kind = "segment"
              THEN _enforce_length_limit(decoding.removed, Len(window)) ELSE <<>>]

\* transcribe_stream(chunk) with the decoder of this run.
DecodeTranscribe ==
    \E n \in 1..MaxChunk :
        /\ nextSample + n <= MaxDecodeStream + 1
        /\ \E window \in {asr.audio_buffer \o Chunk(n)} :
           \E r \in {transcribe_stream(asr, Chunk(n), now,
                                        Decoded(decoding.segments, decoding.removed, Len(window)))} :
               /\ asr' = r.a
               /\ decoding' = Inferred("transcribe_stream",
                                       transcribe_stream_call(asr, Chunk(n), now).call,
                                       window, r)
        /\ nextSample' = nextSample + n
        /\ UNCHANGED <<now, lastCall, committed, redecoded>>
        /\ UNCHANGED <<pipeVars, transVars, wsVars, vadLast, cleaning>>

\* finalize_current() with the decoder of this run.
DecodeFinalize ==
    /\ decoding.op # "finalize_current"
    /\ \E r \in {finalize_current(asr, Decoded(decoding.segments, decoding.removed,
                                                    Len(asr.audio_buffer)))} :
           /\ asr' = r.a
           /\ decoding' = Inferred("finalize_current", finalize_current_call(asr).call,
                                   asr.audio_buffer, r)
    /\ UNCHANGED <<now, nextSample, lastCall, committed, redecoded>>
    /\ UNCHANGED <<pipeVars, transVars, wsVars, vadLast, cleaning>>

NextDecode == AsrTick \/ DecodeTranscribe \/ DecodeFinalize

SpecDecode == InitDecode /\ [][NextDecode]_vars

\* ---- the cleaners of texts alone: SpecClean

\* Pass 1 of post_process from word i on: of a run of one word the first is
\* kept.
RECURSIVE PostPass1(_, _, _)
PostPass1(words, i, deduplicated) ==
    IF i > Len(words) THEN deduplicated
    ELSE PostPass1(words, i + 1,
                   IF lower(words[i]) # lower(words[i - 1])
                   THEN Append(deduplicated, words[i])
                   ELSE deduplicated)

\* Pass 2 of post_process: the for loop takes the smallest n of 2..8 with a
\* repeat.
RECURSIVE PostPass2(_)
PostPass2(result) ==
    IF \A n \in 2..Min(8, Len(result) \div 2) : Repeats(result, n) = {}
    THEN result
    ELSE PostPass2(The({ CutRepeat(result, n)
                         : n \in {m \in 2..Min(8, Len(result) \div 2) :
                                     /\ Repeats(result, m) # {}
                                     /\ \A k \in 2..(m - 1) : Repeats(result, k) = {}} }))

\* TranslationBackend.post_process; its third pass is that of
\* _remove_repetitions, statement for statement.
post_process(text) ==
    IF text = <<>> \/ TextLen(text) < 5 THEN text
    ELSE IF Len(text) < 3 THEN text
    ELSE IF Len(PostPass1(text, 2, <<text[1]>>)) < 4 THEN PostPass1(text, 2, <<text[1]>>)
    ELSE IF Len(PostPass2(PostPass1(text, 2, <<text[1]>>))) < 2
         THEN PostPass2(PostPass1(text, 2, <<text[1]>>))
    ELSE Pass3(PostPass2(PostPass1(text, 2, <<text[1]>>)))

\* The words of the texts of SpecClean, as their characters: "ok", "a",
\* "yes", "Ok", and those of the examples of the source's comments.
Ok == <<1, 2>>
A == <<3>>
Yes == <<4, 5, 6>>
UpperOk == <<1 + Upper, 2>>
Positive == <<7, 1, 6, 8, 9, 8, 10, 5>>
Work == <<11, 1, 12, 2>>
With == <<11, 8, 9, 13>>
Humans == <<13, 14, 15, 3, 16, 6>>
And == <<3, 16, 17>>

\* "positive positive positive positive"
PositiveText == <<Positive, Positive, Positive, Positive>>

\* "work with humans and work with humans and work with humans"
WorkText == <<Work, With, Humans, And, Work, With, Humans, And, Work, With, Humans>>

\* The texts given to the cleaners.
CleanTexts ==
    UNION {[1..n -> {Ok, A, Yes}] : n \in 0..MaxCleanWords}
        \cup UNION {[1..n -> {Ok, UpperOk, A}] : n \in 0..MaxCaseWords}
        \cup {PositiveText, WorkText}

InitClean ==
    /\ asr = NewBackend
    /\ now = 0
    /\ nextSample = 1
    /\ lastCall = [op |-> "none", ended |-> "returned", result |-> None, window |-> <<>>]
    /\ committed = {}
    /\ redecoded = FALSE
    /\ PipeIdle
    /\ TransIdle
    /\ ws = NewServer
    /\ wsLast = NoStep
    /\ vadLast = NoVadCall
    /\ decoding = NoInference
    /\ \E text \in CleanTexts : cleaning = [NoCleaning EXCEPT !.text = text]

\* _remove_repetitions(text)
RemoveRepetitions ==
    /\ cleaning.op = "none"
    /\ cleaning' = [cleaning EXCEPT !.op = "_remove_repetitions",
                                    !.cleaned = _remove_repetitions(cleaning.text)]
    /\ UNCHANGED <<asrVars, pipeVars, transVars, wsVars, vadLast, decoding>>

\* _remove_repetitions of what _remove_repetitions returned.
RemoveRepetitionsAgain ==
    /\ cleaning.op = "_remove_repetitions"
    /\ cleaning' = [cleaning EXCEPT !.op = "again",
                                    !.again = _remove_repetitions(cleaning.cleaned)]
    /\ UNCHANGED <<asrVars, pipeVars, transVars, wsVars, vadLast, decoding>>

\* post_process of the text _remove_repetitions was given.
PostProcess ==
    /\ cleaning.op = "_remove_repetitions"
    /\ cleaning' = [cleaning EXCEPT !.op = "post_process",
                                    !.post = post_process(cleaning.text)]
    /\ UNCHANGED <<asrVars, pipeVars, transVars, wsVars, vadLast, decoding>>

\* _enforce_length_limit(text, audio_duration) for a window of so many units.
EnforceLengthLimit ==
    \E units \in 1..MaxSamples :
        /\ cleaning.op = "none"
        /\ cleaning' = [cleaning EXCEPT !.op = "_enforce_length_limit",
                                        !.units = units,
                                        !.limited = _enforce_length_limit(cleaning.text, units)]
        /\ UNCHANGED <<asrVars, pipeVars, transVars, wsVars, vadLast, decoding>>

NextClean == RemoveRepetitions \/ RemoveRepetitionsAgain \/ PostProcess \/ EnforceLengthLimit

SpecClean == InitClean /\ [][NextClean]_vars

\* ---- the VAD gate alone: SpecVad

\* The chunks given to the gate: the speech flags of their audio units.
VadChunks == UNION {[1..n -> BOOLEAN] : n \in 0..MaxVadChunk}

\* The windows of a buffer of speech flags: a window is above the threshold
\* when one of its units is.
RECURSIVE WindowFlags(_)
WindowFlags(buffer) ==
    IF Len(buffer) < VadWindow THEN <<>>
    ELSE <<\E i \in 1..VadWindow : buffer[i]>>
             \o WindowFlags(SubSeq(buffer, VadWindow + 1, Len(buffer)))

\* The runs after the windows flags.
RECURSIVE RunsAfter(_, _)
RunsAfter(runs, flags) ==
    IF flags = <<>> THEN runs
    ELSE RunsAfter(IF Head(flags)
                   THEN [speechRun |-> Min(runs.speechRun + 1, speech_pad_frames),
                         silenceRun |-> 0]
                   ELSE [speechRun |-> 0,
                         silenceRun |-> Min(runs.silenceRun + 1, silence_pad_frames)],
                   Tail(flags))

InitVad ==
    /\ asr = NewBackend
    /\ now = 0
    /\ nextSample = 1
    /\ lastCall = [op |-> "none", ended |-> "returned", result |-> None, window |-> <<>>]
    /\ committed = {}
    /\ redecoded = FALSE
    /\ commands = 0
    /\ running = FALSE
    /\ cur = 0
    /\ audio_input = [obj |-> 0, active |-> FALSE]
    /\ vad = NewVad(1, TRUE)
    /\ asr_backend = 0
    /\ translation_backend = [obj |-> 0, loaded |-> FALSE]
    /\ audio_queue = <<>>
    /\ translation_queue = <<>>
    /\ result_queue = <<>>
    /\ capture_thread = 0
    /\ process_thread = 0
    /\ translation_thread = 0
    /\ cap = [s \in Sessions |-> NoCapture]
    /\ dec = [s \in Sessions |-> NoDecoder]
    /\ tr = [s \in Sessions |-> NoTranslator]
    /\ emitter = "none"
    /\ seen = NoneSeen
    /\ enqueued = 0
    /\ finals = {}
    /\ stopFinal = 0
    /\ overdue = FALSE
    /\ TransIdle
    /\ WsIdle

\* process(chunk) of the gate.
VadProcess ==
    \E chunk \in VadChunks :
        /\ \E p \in {process(vad, chunk)} :
               /\ vad' = p.v
               /\ \E runs \in {RunsAfter(vadLast, WindowFlags(vad.buffer \o chunk))} :
                      vadLast' = [op |-> "process", chunk |-> chunk, ret |-> p.ret,
                                  speechRun |-> runs.speechRun,
                                  silenceRun |-> runs.silenceRun]
        /\ UNCHANGED <<commands, running, cur, audio_input, asr_backend, translation_backend,
                       audio_queue, translation_queue, result_queue, capture_thread,
                       process_thread, translation_thread, cap, dec, tr, emitter, seen,
                       enqueued, finals, stopFinal, overdue>>
        /\ UNCHANGED <<asrVars, transVars, wsVars, decoding, cleaning>>

\* reset() of the gate: the runs start again.
VadReset ==
    /\ vadLast.op # "reset"
    /\ vad' = reset(vad)
    /\ vadLast' = [NoVadCall EXCEPT !.op = "reset"]
    /\ UNCHANGED <<commands, running, cur, audio_input, asr_backend, translation_backend,
                   audio_queue, translation_queue, result_queue, capture_thread,
                   process_thread, translation_thread, cap, dec, tr, emitter, seen,
                   enqueued, finals, stopFinal, overdue>>
    /\ UNCHANGED <<asrVars, transVars, wsVars, decoding, cleaning>>

NextVad == VadProcess \/ VadReset

SpecVad == InitVad /\ [][NextVad]_vars

\* ---- the WebSocket server and the emitter: SpecWs
\* The handlers of the engine are taken by what they do to running, to
\* result_queue and to the engine's _client; the threads are not run.

Sockets == 1..MaxSockets

\* The inbound messages: a JSON object of type start, stop or another type,
\* or a text that is not JSON.
MessageTypes == {"start", "stop", "other", "invalid"}

\* How a handler of the engine ends: on_start has started the pipeline, or
\* its initialization has failed (an error message is sent to _client);
\* on_stop has returned; _stop_pipeline has raised inside either one.
HandlerOutcomes == {"started", "failed", "returned", "raised"}

pipeRest == <<commands, cur, audio_input, vad, asr_backend, translation_backend, audio_queue,
              translation_queue, capture_thread, process_thread, translation_thread,
              cap, dec, tr, emitter, seen, finals, stopFinal, overdue>>

InitWs ==
    /\ asr = NewBackend
    /\ now = 0
    /\ nextSample = 1
    /\ lastCall = [op |-> "none", ended |-> "returned", result |-> None, window |-> <<>>]
    /\ committed = {}
    /\ redecoded = FALSE
    /\ PipeIdle
    /\ TransIdle
    /\ WsIdle

\* _handle_client: a client connects and is added to _clients.
HandleClientConnect(c) ==
    /\ c \notin ws.used
    /\ ws' = [ws EXCEPT !.clients = @ \cup {c}, !.open = @ \cup {c}, !.used = @ \cup {c}]
    /\ wsLast' = [NoStep EXCEPT !.op = "connect", !.socket = c]
    /\ UNCHANGED <<asrVars, pipeVars, transVars, aloneVars>>

\* The connection of a client goes down.
ConnectionLost(c) ==
    /\ c \in ws.open
    /\ ws' = [ws EXCEPT !.open = @ \ {c}]
    /\ wsLast' = [NoStep EXCEPT !.op = "lost", !.socket = c]
    /\ UNCHANGED <<asrVars, pipeVars, transVars, aloneVars>>

\* _handle_client: the message loop of a connection that is down ends, and
\* the finally clause discards the client.
HandleClientExit(c) ==
    /\ c \in ws.clients
    /\ c \notin ws.open
    /\ ws' = [ws EXCEPT !.clients = @ \ {c}]
    /\ wsLast' = [NoStep EXCEPT !.op = "exit", !.socket = c]
    /\ UNCHANGED <<asrVars, pipeVars, transVars, aloneVars>>

\* _process_message for a message of client c (whose connection stays up
\* while the message is processed).  first: the element list(_clients)[0]
\* that _on_client_start takes as _client.  A handler that raises ends
\* _handle_client: nothing is replied and the client is discarded.
ProcessMessage(c) ==
    \E type \in MessageTypes, first \in ws.clients, outcome \in HandlerOutcomes :
        /\ c \in ws.clients
        /\ c \in ws.open
        /\ type = "start" => outcome \in {"started", "failed", "raised"}
        /\ type = "stop" => outcome \in {"returned", "raised"}
        /\ type \in {"other", "invalid"} => outcome = "returned"
        /\ type # "start" => first = c
        /\ outcome = "raised" => running
        /\ LET errorRaised == type = "start" /\ outcome = "failed" /\ first \notin ws.open
               raised == outcome = "raised" \/ errorRaised
           IN  /\ ws' = [ws EXCEPT
                      !.client = IF type = "start" THEN first ELSE @,
                      !.clients = IF raised THEN @ \ {c} ELSE @,
                      !.open = IF raised THEN @ \ {c} ELSE @]
               /\ running' = IF type = "start" THEN outcome = "started"
                             ELSE IF type = "stop" THEN FALSE
                             ELSE running
               /\ result_queue' = IF type = "start" /\ outcome = "started" THEN <<>>
                                  ELSE result_queue
               /\ enqueued' = IF type = "start" /\ outcome = "started" THEN 0 ELSE enqueued
               /\ wsLast' = [NoStep EXCEPT
                      !.op = "message", !.socket = c, !.type = type,
                      !.handler = IF type = "start" THEN "on_start"
                                  ELSE IF type = "stop" THEN "on_stop" ELSE "none",
                      !.outcome = outcome,
                      !.errorTo = IF type = "start" /\ outcome = "failed" /\ first \in ws.open
                                  THEN first ELSE 0,
                      !.replies = IF raised THEN <<>>
                                  ELSE IF type = "start" THEN <<"status started">>
                                  ELSE IF type = "stop" THEN <<"status stopped">>
                                  ELSE IF type = "other" THEN <<"error Unknown type">>
                                  ELSE <<"error Invalid JSON">>,
                      !.ok = ~raised]
        /\ UNCHANGED pipeRest
        /\ UNCHANGED <<asrVars, transVars, aloneVars>>

\* A worker thread of the running pipeline puts a message on result_queue.
EnqueueResult ==
    /\ running
    /\ enqueued < MaxResults
    /\ result_queue' = Append(result_queue, [id |-> enqueued + 1, type |-> "partial"])
    /\ enqueued' = enqueued + 1
    /\ wsLast' = [NoStep EXCEPT !.op = "enqueue"]
    /\ UNCHANGED <<running, ws>>
    /\ UNCHANGED pipeRest
    /\ UNCHANGED <<asrVars, transVars, aloneVars>>

\* One pass of _broadcast_loop: up to EmitBatch messages are taken from
\* result_queue and sent to _client; with no _client they are dropped.  A
\* send on a connection that is down raises: the message taken is lost, the
\* error is logged and the loop goes on after a sleep.
BroadcastPass ==
    /\ running
    /\ result_queue # <<>>
    /\ LET n == IF Len(result_queue) < EmitBatch THEN Len(result_queue) ELSE EmitBatch
       IN  IF ws.client = 0 \/ ws.client \in ws.open
           THEN /\ result_queue' = Drop(result_queue, n)
                /\ wsLast' = [NoStep EXCEPT
                       !.op = IF ws.client = 0 THEN "drop" ELSE "send",
                       !.socket = ws.client,
                       !.replies = IF ws.client = 0 THEN <<>>
                                   ELSE [i \in 1..n |-> result_queue[i].id]]
                /\ UNCHANGED ws
           ELSE /\ result_queue' = Tail(result_queue)
                /\ wsLast' = [NoStep EXCEPT !.op = "send", !.socket = ws.client,
                                             !.ok = FALSE]
                /\ ws' = [ws EXCEPT !.failed = @ \cup {ws.client}]
    /\ UNCHANGED <<running, enqueued>>
    /\ UNCHANGED pipeRest
    /\ UNCHANGED <<asrVars, transVars, aloneVars>>

NextWs ==
    \/ \E c \in Sockets :
          \/ HandleClientConnect(c) \/ ConnectionLost(c) \/ HandleClientExit(c)
          \/ ProcessMessage(c)
    \/ EnqueueResult
    \/ BroadcastPass

SpecWs == InitWs /\ [][NextWs]_vars

\* ---------------------------------------------------------------- claims

\* C1: after every call of transcribe_stream that returns (chunks of any
\* size, interleaved with finalize_current and reset_stream), the audio
\* window holds at most max_buffer_duration * sample_rate samples.
C1_WindowCap ==
    (lastCall.op = "transcribe_stream" /\ lastCall.ended = "returned")
        => Len(asr.audio_buffer) <= MaxSamples

\* C1 witness: a transcribe_stream call whose chunk took the window over the
\* cap has returned, and the forced finalize has cut the window.
C1_Witness ==
    /\ lastCall.op = "transcribe_stream" /\ lastCall.ended = "returned"
    /\ Len(lastCall.window) > MaxSamples
    /\ Len(asr.audio_buffer) = 0

\* C2: when transcribe_stream or finalize_current returns a final segment
\* the window has been cut in the same call, and no inference ever decodes
\* an audio unit that an earlier final segment already covered.
C2_FinalOnce ==
    /\ (lastCall.result.kind = "segment" /\ lastCall.result.is_final)
           => asr.audio_buffer = <<>>
    /\ ~redecoded
    /\ Units(asr.audio_buffer) \cap committed = {}

\* C2 witness: a final segment was returned by a partial inference (the
\* hallucination path), and audio arrived after it.
C2_Witness ==
    /\ committed # {}
    /\ lastCall.op = "transcribe_stream"
    /\ lastCall.result.kind = "segment" /\ ~lastCall.result.is_final
    /\ \E u \in Units(lastCall.result.text.audio) : \E c \in committed : c < u

\* C3: in a running pipeline with the VAD gate enabled, once speech has been
\* fed to the engine and the input has then been silent for
\* SILENCE_FINALIZE_DELAY, the decoder calls finalize_current(): no pass of
\* the decoder loop (on silent frames or on a queue timeout) goes by after
\* that delay without the call.
C3_SilenceFinalizes == ~overdue

\* C4: an exception raised while the decoder thread processes a batch is
\* swallowed and the thread keeps running: no decoder thread is ended by an
\* exception.
C4_DecoderSurvives == \A s \in Sessions : dec[s].exit # "crashed"

\* C5: the capture thread never blocks on audio_queue: a frame that arrives
\* while the queue is full is dropped and every other frame goes on to the
\* put, which then finds room; the queue keeps the arrival order and never
\* exceeds its capacity.
C5_NeverBlocks ==
    [][/\ Len(audio_queue') <= AudioQueueCap
       /\ \A s \in Sessions : cap'[s].pc = "put" => Len(audio_queue') < AudioQueueCap
       /\ \A i, j \in 1..Len(audio_queue') : i < j => audio_queue'[i].id < audio_queue'[j].id
       /\ \A s \in Sessions : \A i \in 1..Len(audio_queue') :
              cap'[s].pc = "put" => audio_queue'[i].id < cap'[s].chunk.id
       /\ nextSample' = nextSample + 1 =>
              IF Len(audio_queue) >= AudioQueueCap THEN cap' = cap
              ELSE \E s \in Sessions : /\ cap[s].pc = "loop"
                                       /\ cap'[s].pc = "put"
                                       /\ cap'[s].chunk.id = nextSample]_vars

\* C5 witness: the queue is full and the frame that arrived last is neither
\* in it nor about to be put: it was dropped.
C5_Witness ==
    /\ running
    /\ Len(audio_queue) = AudioQueueCap
    /\ audio_queue[Len(audio_queue)].id < nextSample - 1
    /\ \A s \in Sessions : cap[s].pc # "put"

C7_OrderKept == ~seen.disorder /\ ~seen.late

\* C8: every translation_update message on result_queue has as source text
\* the text of a final message put on result_queue earlier in the same
\* session.
C8_UpdateFollowsFinal ==
    \A i \in 1..Len(result_queue) :
        result_queue[i].type = "translation_update" => result_queue[i].text \in finals

\* C9: at no moment two capture threads, two decoder threads or two
\* translator threads are alive.
C9_OnePipeline ==
    /\ Cardinality({s \in Sessions : cap[s].pc \notin {"none", "done"}}) <= 1
    /\ Cardinality({s \in Sessions : dec[s].pc \notin {"none", "done"}}) <= 1
    /\ Cardinality({s \in Sessions : tr[s].pc \notin {"none", "done"}}) <= 1

\* C10: the final message the last finalize_current() of a stop produced has
\* been sent to the client once the stop is over.
C10_StopFinalSent == stopFinal # 0 => stopFinal \in seen.ids

\* C11: a thread of a stopped session only ends: a decoder or translator
\* thread of an earlier session that stands at the head of its loop leaves
\* the loop and takes up no further work (no batch from audio_queue, no job
\* from translation_queue), and the emitter task is over when a stop is over.
C11_StoppedThreadsExit ==
    [][/\ \A s \in Sessions :
              (s < cur /\ cur' = cur /\ dec[s].pc = "loop" /\ dec'[s] # dec[s])
                  => dec'[s].pc = "done"
       /\ \A s \in Sessions :
              (s < cur /\ cur' = cur /\ tr[s].pc = "loop" /\ tr'[s] # tr[s])
                  => tr'[s].pc = "done"
       /\ (running /\ ~running') => emitter' = "done"]_vars

\* C12: while a decoder thread is inside model.transcribe on the installed
\* engine, no step of another thread changes the engine's state or replaces
\* the engine.
C12_EngineOwned ==
    [][\A s \in Sessions :
           (dec[s].pc = "infer" /\ dec'[s] = dec[s] /\ dec[s].obj = asr_backend)
               => (asr' = asr /\ asr_backend' = asr_backend)]_vars

\* C13: right after a translate call that saw the third consecutive failed
\* HTTP request of the online backend, with the marian (local) backend
\* loaded, the router's active backend is marian, the online backoff window
\* is open, and a translation_update made of that call names marian.
C13_ThreeFailuresSwitch ==
    (lastRequest.op = "translate" /\ lastRequest.streak >= MAX_CONSECUTIVE_FAILURES
         /\ router.marian_loaded)
        => /\ router.active = "marian"
           /\ online.backoff_until > now
           /\ lastRequest.update \in {"none", "marian"}

\* C14: a translate call for a text that is not blank, made while the router
\* has fallen back, issues a probe exactly when ONLINE_RETRY_INTERVAL has elapsed since the switch or
\* the previous probe (last_online_retry is the time of that switch or
\* probe); a probe that returns a translation makes online active again with
\* the failure counters reset, and any other probe leaves marian active.
C14_ProbeAfterInterval ==
    [][(lastRequest'.op = "translate" /\ strip(lastRequest'.text) # <<>>) =>
          /\ (lastRequest'.probe # "none")
                 <=> /\ router.fallen_back
                     /\ router.online_loaded
                     /\ now - router.last_online_retry >= ONLINE_RETRY_INTERVAL
          /\ lastRequest'.probe # "none" => router'.last_online_retry = now
          /\ (router.active = "online" /\ router'.active = "marian")
                 => router'.last_online_retry = now'
          /\ lastRequest'.probe \in {"none", "switched", "stayed"}
          /\ lastRequest'.probeResponse = "ok" => lastRequest'.probe = "switched"
          /\ lastRequest'.probeResponse \notin {"ok", "none"} => lastRequest'.probe = "stayed"
          /\ lastRequest'.probe = "switched"
                 => /\ router'.active = "online"
                    /\ ~router'.fallen_back
                    /\ online'.consecutive_failures = 0
                    /\ online'.current_backoff = INITIAL_BACKOFF_SECONDS
                    /\ online'.backoff_until = 0
          /\ lastRequest'.probe = "stayed"
                 => router'.active = "marian" /\ router'.fallen_back]_vars

\* A probe, issued ONLINE_RETRY_INTERVAL or more after the switch to marian,
\* got a translation from the online backend and has brought the router back
\* to online.
C14_Witness ==
    /\ lastRequest.op = "translate"
    /\ lastRequest.probe = "switched"
    /\ lastRequest.probeResponse = "ok"
    /\ router.active = "online"
    /\ now >= ONLINE_RETRY_INTERVAL

\* C15: when the online backend is active and the HTTP request of a
\* translate call fails, one failure is recorded on it: its
\* consecutive-failure count goes up by one.
C15_FailureRecorded ==
    [][(/\ lastRequest'.op = "translate"
        /\ router.active = "online"
        /\ lastRequest'.response \notin {"none", "ok", "empty"})
           => online'.consecutive_failures = online.consecutive_failures + 1]_vars

C17_OnlineOutsideBackoff ==
    router.active = "online" => now >= online.backoff_until

\* C18: every failed request of the kinds that open a backoff window (HTTP
\* 429, 403, 5xx, transport errors) multiplies current_backoff by
\* BACKOFF_MULTIPLIER up to MAX_BACKOFF_SECONDS, and every request that
\* succeeds resets current_backoff and consecutive_failures.
C18_BackoffDoubles ==
    [][(lastRequest'.op = "translate" /\ lastRequest'.probe = "none") =>
          /\ lastRequest'.response \in {"http429", "http500", "network"}
                 => online'.current_backoff =
                        Min(online.current_backoff * BACKOFF_MULTIPLIER, MAX_BACKOFF_SECONDS)
          /\ lastRequest'.response \in {"ok", "empty"}
                 => /\ online'.current_backoff = INITIAL_BACKOFF_SECONDS
                    /\ online'.consecutive_failures = 0]_vars

\* C19: a request that meets HTTP 429, 403, 5xx or a transport error opens
\* the backoff window [now, now + current_backoff], and a translate call
\* made while the window is open issues no HTTP request.
C19_BackoffWindow ==
    [][(lastRequest'.op = "translate" /\ lastRequest'.probe = "none") =>
          /\ lastRequest'.response \in {"http429", "http500", "network"}
                 => online'.backoff_until = now' + online.current_backoff
          /\ now < online.backoff_until => lastRequest'.response = "none"]_vars

\* C20: every HTTP request is stamped in the rate window at the time it is
\* issued, and at most MAX_REQUESTS_PER_MINUTE requests, this one included,
\* are issued within the window that ends with it: a call at capacity has
\* slept until the oldest request left the window.
C20_RateLimit ==
    [][(/\ lastRequest'.op = "translate"
        /\ lastRequest'.response # "none" \/ lastRequest'.probeResponse # "none")
           => LET ts == online'.request_timestamps
              IN  /\ ts # <<>>
                  /\ ts[Len(ts)] = now'
                  /\ Cardinality({j \in 1..Len(ts) : ts[j] > now' - RateWindow})
                         <= MAX_REQUESTS_PER_MINUTE]_vars

\* A request arrived at capacity and was issued after the sleep: the rate
\* window holds the requests that filled it and the new one.
C20_Witness ==
    /\ lastRequest.op = "translate"
    /\ lastRequest.response # "none"
    /\ Len(online.request_timestamps) > MAX_REQUESTS_PER_MINUTE
    /\ online.request_timestamps[Len(online.request_timestamps)] = now
    /\ online.request_timestamps[1] < now - RateWindow

\* The keys of the cache, least recently used first.
CacheKeys == [i \in 1..Len(online.cache) |-> online.cache[i].key]

\* C21: the cache never holds more than MAX_CACHE_SIZE entries; its keys are
\* distinct triples of source language, target language and trimmed text;
\* the entries it holds are the most recently used keys (a hit and an
\* insertion are uses), so that the entry evicted is the least recently used
\* one; and a call that returns a translation leaves the entry of its own
\* key as the most recent one.
C21_CacheLru ==
    /\ Len(online.cache) <= MAX_CACHE_SIZE
    /\ \A i, j \in 1..Len(online.cache) : CacheKeys[i] = CacheKeys[j] => i = j
    /\ \A i \in 1..Len(online.cache) :
           /\ Len(CacheKeys[i]) = 3
           /\ CacheKeys[i][3] # <<>>
           /\ Head(CacheKeys[i][3]) # Blank
           /\ CacheKeys[i][3][Len(CacheKeys[i][3])] # Blank
    /\ Len(online.cache) = Min(Len(cacheUses), MAX_CACHE_SIZE)
    /\ \A i \in 1..Len(online.cache) :
           CacheKeys[i] = cacheUses[Len(cacheUses) - Len(online.cache) + i]
    /\ (lastRequest.op = "online_translate" /\ ~lastRequest.raised
           /\ \E i \in 1..Len(lastRequest.text) : lastRequest.text[i] # Blank)
          => /\ online.cache # <<>>
             /\ CacheKeys[Len(online.cache)][1] = lastRequest.source_lang
             /\ CacheKeys[Len(online.cache)][2] = tgt_lang
             /\ CacheKeys[Len(online.cache)][3] =
                    SelectSeq(lastRequest.text, LAMBDA c : c # Blank)

\* More keys have been used than the cache holds, and the last call was a
\* cache hit for a text that had blanks to trim.
C21_Witness ==
    /\ Len(cacheUses) > MAX_CACHE_SIZE
    /\ Len(online.cache) = MAX_CACHE_SIZE
    /\ lastRequest.op = "online_translate"
    /\ lastRequest.response = "none"
    /\ lastRequest.ret = "text"
    /\ Len(lastRequest.text) = 3

\* C22: a translate call of the router returns a result and raises nothing,
\* whatever the text, the outcome of the probe, of the online request and of
\* the marian backend, whether a backoff window is open and whether the
\* backends or the router are loaded; the translation returned is empty
\* exactly when no backend produced one.
C22_TranslateNeverRaises ==
    lastRequest.op = "translate"
        => /\ ~lastRequest.raised
           /\ lastRequest.ret \in {"text", "empty"}
           /\ lastRequest.served = "none" <=> lastRequest.ret = "empty"
           /\ lastRequest.ret = "empty" <=> lastRequest.update = "none"

\* Total failure: the probe of the online backend failed, marian is the
\* active backend and produced nothing, and the call returned an empty
\* translation.
C22_Witness ==
    /\ lastRequest.op = "translate"
    /\ lastRequest.probe = "stayed"
    /\ lastRequest.probeResponse \notin {"none", "ok", "empty"}
    /\ router.marian_loaded
    /\ lastRequest.served = "none"
    /\ lastRequest.ret = "empty"
    /\ ~lastRequest.raised

\* C23: a start command with translation enabled whose ASR model loads starts
\* the pipeline (running is set and the capture and decoder threads of the
\* new session are started), whether or not the translation backends load.
C23_TranslationLoadNotFatal ==
    [][(commands' = commands + 1 /\ cur' = cur + 1 /\ asr'.model
          /\ translation_backend'.obj = cur')
         => /\ running'
            /\ cap'[cur'].pc = "start"
            /\ dec'[cur'].pc = "loop"]_vars

\* C24: when the audio source of the running pipeline raises in the capture
\* thread (here: start() raises and the thread ends), the pipeline is
\* stopped: running becomes false.
C24_AudioErrorStops ==
    [][\A s \in Sessions :
          (s = cur /\ running /\ commands' = commands
             /\ cap[s].pc = "start" /\ cap'[s].pc = "done")
            => ~running']_vars

\* C25: a send of the emitter that fails on a client leaves the pipeline
\* running with its threads as they are, and no send is attempted on a client
\* a send has failed on before.
C25_SendErrorRemovesClient ==
    [][wsLast'.op = "send" =>
          /\ (running' /\ cap' = cap /\ dec' = dec /\ tr' = tr)
          /\ wsLast'.socket \notin ws.failed]_vars

\* C26: a message of type start has called on_start and is answered with
\* the one reply status started, a message of type stop has called on_stop
\* and is answered with the one reply status stopped, and a message of
\* another type has called no handler and is answered with the one reply
\* error Unknown type.
C26_OneReplyPerMessage ==
    wsLast.op = "message" =>
        /\ wsLast.type = "start"
               => wsLast.handler = "on_start" /\ wsLast.replies = <<"status started">>
        /\ wsLast.type = "stop"
               => wsLast.handler = "on_stop" /\ wsLast.replies = <<"status stopped">>
        /\ wsLast.type = "other"
               => wsLast.handler = "none" /\ wsLast.replies = <<"error Unknown type">>

\* C27: the gate goes from silence to speech only in a call that ends a run
\* of at least speech_pad_frames windows above the threshold.
C27_SpeechPad ==
    [][(vadLast'.op = "process" /\ ~vad.is_speech /\ vadLast'.ret)
          => vadLast'.speechRun >= speech_pad_frames]_vars

\* C28: a call of process that ends a run of at least silence_pad_frames
\* windows not above the threshold returns silence, with no reset() since
\* the gate opened.
C28_SilencePad ==
    (vadLast.op = "process" /\ vadLast.silenceRun >= silence_pad_frames) => ~vadLast.ret

\* C29: an inference run by transcribe_stream for which the decoder returned
\* two or more segments (none of them blank) returns a final segment whose
\* text is the text of all the segments but the last, and cuts the window at
\* the front: a part of its end is left, and not all of it.
C29_CommitAllButLast ==
    (/\ decoding.op = "transcribe_stream"
     /\ decoding.call # "none"
     /\ Len(decoding.segments) >= 2
     /\ \A i \in 1..Len(decoding.segments) : decoding.segments[i] # <<>>)
        => /\ decoding.kind = "segment"
           /\ decoding.is_final
           /\ decoding.text
                  = raw_text(SubSeq(decoding.segments, 1, Len(decoding.segments) - 1))
           /\ asr.audio_buffer # <<>>
           /\ Len(asr.audio_buffer) < Len(decoding.window)
           /\ asr.audio_buffer
                  = SubSeq(decoding.window,
                           Len(decoding.window) - Len(asr.audio_buffer) + 1,
                           Len(decoding.window))

\* C30: an inference whose raw text the three passes of _remove_repetitions
\* leave shorter than 70 % returns a final segment, also when it was run as
\* a partial one, and the window is emptied; of a raw text of ten "ok" the
\* segment keeps at most three.
C30_HallucinationFinal ==
    (/\ decoding.call # "none"
     /\ decoding.raw # <<>>
     /\ 10 * TextLen(decoding.removed) < 7 * TextLen(decoding.raw))
        => /\ decoding.kind = "segment"
           /\ decoding.is_final
           /\ asr.audio_buffer = <<>>
           /\ decoding.raw = [i \in 1..10 |-> <<1, 2>>]
                  => Count(decoding.text, <<1, 2>>) <= 3

\* C30 witness: a partial inference on ten "ok" has returned a final segment.
C30_Witness ==
    /\ decoding.call = "partial"
    /\ decoding.raw = [i \in 1..10 |-> <<1, 2>>]
    /\ decoding.kind = "segment"
    /\ decoding.is_final
    /\ decoding.text # <<>>
    /\ asr.audio_buffer = <<>>

\* C31: _remove_repetitions is idempotent: applied to what it returned, it
\* returns the same text.
C31_CleanIdempotent ==
    cleaning.op = "again" => cleaning.again = cleaning.cleaned

\* C32: of "work with humans and work with humans and work with humans"
\* _remove_repetitions leaves "work with humans and"; of any text made of two
\* or more copies of a pattern of n distinct words (2 <= n <= 10) and a cut
\* copy of it at the end, it leaves the pattern once.
C32_NgramCollapse ==
    cleaning.op = "_remove_repetitions"
        => /\ cleaning.text = WorkText => cleaning.cleaned = <<Work, With, Humans, And>>
           /\ \A n \in 2..10 :
                  (/\ Len(cleaning.text) > 2 * n
                   /\ Len(cleaning.text) % n # 0
                   /\ \A i \in 1..n : \A j \in 1..n :
                          i # j => lower(cleaning.text[i]) # lower(cleaning.text[j])
                   /\ \A i \in 1..(Len(cleaning.text) - n) :
                          cleaning.text[i + n] = cleaning.text[i])
                      => cleaning.cleaned = SubSeq(cleaning.text, 1, n)

\* C33: what _remove_repetitions returns has no three words in a row that
\* are the same word but for case; of "positive positive positive positive"
\* it leaves "positive positive".
C33_SingletonCollapse ==
    cleaning.op = "_remove_repetitions"
        => /\ \A i \in 1..(Len(cleaning.cleaned) - 2) :
                  ~(/\ lower(cleaning.cleaned[i]) = lower(cleaning.cleaned[i + 1])
                    /\ lower(cleaning.cleaned[i]) = lower(cleaning.cleaned[i + 2]))
           /\ cleaning.text = PositiveText => cleaning.cleaned = <<Positive, Positive>>

\* C34: _enforce_length_limit returns the first max(5, ceil(d * 5)) words of
\* a text with more words than that, d being the seconds of the window, and
\* a text with at most that many words as it is.
C34_LengthLimit ==
    cleaning.op = "_enforce_length_limit"
        => \A m \in {IF (cleaning.units * max_buffer_duration * MAX_WORDS_PER_SECOND
                            + MaxSamples - 1) \div MaxSamples > 5
                       THEN (cleaning.units * max_buffer_duration * MAX_WORDS_PER_SECOND
                                + MaxSamples - 1) \div MaxSamples
                       ELSE 5} :
               cleaning.limited = IF Len(cleaning.text) > m
                                  THEN SubSeq(cleaning.text, 1, m)
                                  ELSE cleaning.text

\* C35: post_process returns for every text what _remove_repetitions
\* returns for it.
C35_SameCleaner ==
    cleaning.op = "post_process" => cleaning.post = cleaning.cleaned

\* C36: in a running pipeline whose gate is enabled and has not reported
\* speech since it was made, no thread goes into an engine call, the engine
\* is the one that was loaded, and nothing is put on result_queue or
\* translation_queue.
C36_SilenceDoesNothing ==
    [][(/\ running /\ running'
        /\ vad'.obj = vad.obj
        /\ vad'.enabled
        /\ ~vad'.spoke)
          => /\ \A s \in Sessions :
                    /\ dec'[s].pc = "infer" => dec[s].pc = "infer"
                    /\ dec[s].has_pending_audio => dec'[s].has_pending_audio
             /\ asr' = asr
             /\ enqueued' = enqueued
             /\ Len(result_queue') <= Len(result_queue)
             /\ Len(translation_queue') <= Len(translation_queue)]_vars

\* C37: with no model loaded transcribe_stream and finalize_current return
\* None and leave the window as it is; unload_model leaves the engine with
\* no model and an empty window; and an engine with no model has an empty
\* window in every state.
C37_IdleKeepsWindow ==
    [][/\ (/\ ~asr.model
           /\ lastCall' # lastCall
           /\ lastCall'.op \in {"transcribe_stream", "finalize_current"})
             => /\ lastCall'.ended = "returned"
                /\ lastCall'.result = None
                /\ asr'.audio_buffer = asr.audio_buffer
       /\ (lastCall' # lastCall /\ lastCall'.op = "unload_model")
             => (~asr'.model /\ asr'.audio_buffer = <<>>)
       /\ ~asr'.model => asr'.audio_buffer = <<>>]_vars

\* C37 witness: an engine that has returned a final segment and has no model
\* now was given audio by transcribe_stream, and its window is empty.
C37_Witness ==
    /\ ~asr.model
    /\ lastCall.op = "transcribe_stream"
    /\ lastCall.window # <<>>
    /\ committed # {}
    /\ asr.audio_buffer = <<>>

\* C38: the reply "status started" to a start is sent only when the
\* pipeline runs on the return of on_start; a start whose initialization
\* failed leaves the pipeline not running and is not answered "started".
C38_StartedOnlyIfRunning ==
    (wsLast.op = "message" /\ wsLast.type = "start")
        => /\ (\E i \in 1..Len(wsLast.replies) : wsLast.replies[i] = "status started")
                  => running
           /\ wsLast.outcome = "failed"
                  => /\ ~running
                     /\ \A i \in 1..Len(wsLast.replies) :
                            wsLast.replies[i] # "status started"

\* C39: the translation_backend field of a translation_update names the
\* backend that produced the translation of that request.
C39_UpdateNamesServer ==
    (lastRequest.op = "translate" /\ lastRequest.update # "none")
        => lastRequest.update = lastRequest.served

\* C40: from a load_model that returned until unload_model, active names a
\* backend of the router that is loaded, and is_fallen_back holds only while
\* active is marian; a router that is not loaded (after unload_model, or
\* after a load_model that raised) has no active backend, is not fallen
\* back, and is_loaded is false.
C40_ActiveIsLoaded ==
    /\ (lastRequest.op = "load_model" /\ ~lastRequest.raised)
           => router.active \in {"online", "marian"}
    /\ (router.online_loaded \/ router.marian_loaded)
           => router.active \in {"online", "marian"}
    /\ router.active = "online" => (router.online_loaded /\ online.loaded)
    /\ router.active = "marian" => router.marian_loaded
    /\ router.fallen_back => router.active = "marian"
    /\ (router.active = "none" \/ lastRequest.op = "unload_model")
           => /\ router.active = "none"
              /\ ~router.fallen_back
              /\ ~(router.online_loaded \/ router.marian_loaded)

\* The router fell back to marian during a translate call, online still
\* loaded.
C40_Witness ==
    /\ lastRequest.op = "translate"
    /\ router.active = "marian"
    /\ router.fallen_back
    /\ router.online_loaded
    /\ router.marian_loaded
====
